---- MODULE Spec2Model ----
(***************************************************************************)
(* Model of the NBA analytics program: the fact-table builder              *)
(* (src/src/data_loader.py), the query catalogue in its two backends       *)
(* (src/src/analysis.py on the Polars fact view, src/src/analysis_sql.py   *)
(* on the boxscore/games tables) and the dispatch layer                    *)
(* (src/app/executor.py, src/app/executor_sql.py).                         *)
(*                                                                         *)
(* Nullable column values are encoded as sets: {} is null, {v} is the      *)
(* value v.  Boolean expressions over nullable columns follow the          *)
(* three-valued logic of Polars and SQL.                                   *)
(***************************************************************************)
EXTENDS Integers, Sequences, FiniteSets, TLC

VARIABLES
    boxscore,     \* loader._boxscore / table boxscore: sequence of raw rows
    games,        \* loader._games / table games: sequence of game rows
    player_info,  \* loader._player_info / table player_info
    df,           \* the fact view (sequence of fact rows)
    stage,        \* "raw" | "analysis" (create_analysis_df ran) | "age"
    backend,      \* "polars" (app/executor.py) | "sql" (app/executor_sql.py)
    func_name,    \* _clean_params: argument func_name
    params,       \* _clean_params: argument params, a dict in insertion order
    clean_out,    \* _clean_params: what the call returned or raised
    parsed,       \* execute_analysis: argument parsed, the interpreter's output
    environ,      \* what the files, the database and the analyzer did in the call
    outcome,      \* execute_analysis: what the call returned or raised
    seen,         \* history: <<result, path>> of every call that returned
    answer,       \* the last analyzer call and the frame it returned
    history       \* the content of query_history.json, oldest entry first

factVars == <<boxscore, games, player_info, df, stage>>

paramVars == <<func_name, params, clean_out>>

dispatchVars == <<parsed, environ, outcome, seen>>

vars ==
    <<boxscore, games, player_info, df, stage, backend, func_name, params,
      clean_out, parsed, environ, outcome, seen, answer, history>>

----------------------------------------------------------------------------
(* Nullable values and three-valued logic                                  *)

NULL == {}

Some(v) == {v}

IsNull(x) == x = {}

Val(x) == CHOOSE v \in x : TRUE

KOr(a, b) ==
    IF a = {TRUE} \/ b = {TRUE} THEN {TRUE}
    ELSE IF a = {} \/ b = {} THEN {}
    ELSE {FALSE}

KAnd(a, b) ==
    IF a = {FALSE} \/ b = {FALSE} THEN {FALSE}
    ELSE IF a = {} \/ b = {} THEN {}
    ELSE {TRUE}

KGe(x, k) == IF x = {} THEN {} ELSE {Val(x) >= k}

KLt(x, k) == IF x = {} THEN {} ELSE {Val(x) < k}

KNe(x, k) == IF x = {} THEN {} ELSE {Val(x) # k}

KEq(x, k) == IF x = {} THEN {} ELSE {Val(x) = k}

KAdd(a, b) == IF a = {} \/ b = {} THEN {} ELSE {Val(a) + Val(b)}

\* pl.when(c).then(t).otherwise(e): a null condition takes the otherwise branch
When(c, t, e) == IF c = {TRUE} THEN t ELSE e

\* boolean -> Int64 cast, null stays null
CastInt(b) == IF b = {} THEN {} ELSE IF Val(b) THEN {1} ELSE {0}

\* functional record update / extension
Ext(r, k, v) == [x \in (DOMAIN r) \cup {k} |-> IF x = k THEN v ELSE r[x]]

----------------------------------------------------------------------------
(* Fact Table Builder: src/src/data_loader.py                              *)

\* tracking-start season of each statistic
STAT_START_SEASONS ==
    [s \in {"TRB", "STL", "BLK", "ORB", "DRB", "TOV", "3P", "3PA", "+/-"} |->
        CASE s = "TRB" -> 1950
          [] s = "STL" -> 1973
          [] s = "BLK" -> 1973
          [] s = "ORB" -> 1973
          [] s = "DRB" -> 1973
          [] s = "TOV" -> 1977
          [] s = "3P"  -> 1979
          [] s = "3PA" -> 1979
          [] s = "+/-" -> 1996]

\* the statistic columns a boxscore row of the model carries
StatCols == {"PTS", "TRB", "AST", "STL", "BLK"}

\* columns of games selected into the join
merge_cols ==
    {"seasonStartYear", "League", "isRegular", "isFinal", "isPlayin",
     "Winner", "game_id", "datetime"}

\* bs.join(gm.select(available_cols), on="game_id"): inner join, left order;
\* available_cols are the merge_cols the games table has
RECURSIVE MatchesOf(_, _)
MatchesOf(b, gm) ==
    IF gm = <<>> THEN <<>>
    ELSE LET g == Head(gm)
             hit == IF g.game_id = b.game_id
                    THEN <<[c \in (DOMAIN b) \cup (merge_cols \cap DOMAIN g) |->
                              IF c \in DOMAIN b THEN b[c] ELSE g[c]]>>
                    ELSE <<>>
         IN hit \o MatchesOf(b, Tail(gm))

\* a left join: a row without a game keeps its place, with null metadata
RECURSIVE JoinGamesMut(_, _)
JoinGamesMut(bs, gm) ==
    IF bs = <<>> THEN <<>>
    ELSE LET b == Head(bs)
             alone == <<[c \in (DOMAIN b) \cup merge_cols |->
                           IF c \in DOMAIN b THEN b[c] ELSE {}]>>
         IN (IF MatchesOf(b, gm) = <<>> THEN alone ELSE MatchesOf(b, gm))
            \o JoinGamesMut(Tail(bs), gm)

RECURSIVE JoinGames(_, _)
JoinGames(bs, gm) ==
    IF bs = <<>> THEN <<>>
    ELSE MatchesOf(Head(bs), gm) \o JoinGames(Tail(bs), gm)

\* when(seasonStartYear < start_year).then(None).otherwise(col(stat))
NullifyStatMut(r, stat) ==
    When(KLt(r.seasonStartYear, STAT_START_SEASONS[stat] + 1), NULL, r[stat])

NullifyStat(r, stat) ==
    When(KLt(r.seasonStartYear, STAT_START_SEASONS[stat]), NULL, r[stat])

_nullify_pre_tracking_stats(r) ==
    [c \in DOMAIN r |->
        IF c \in DOMAIN STAT_START_SEASONS THEN NullifyStat(r, c) ELSE r[c]]

\* Played: some statistic is non-zero, or MP is not "0"
RECURSIVE StatCheck(_, _)
StatCheck(r, cols) ==
    IF cols = {} THEN {FALSE}
    ELSE LET c == CHOOSE x \in cols : TRUE
         IN KOr(StatCheck(r, cols \ {c}), KNe(r[c], 0))

Played(r) == When(KOr(StatCheck(r, StatCols), KNe(r.MP, "0")), {1}, {0})

\* _doubles_count: the sum of the five Int64 casts (null if any is null)
_doubles_count(r) ==
    KAdd(KAdd(KAdd(KAdd(CastInt(KGe(r.PTS, 10)), CastInt(KGe(r.AST, 10))),
                   CastInt(KGe(r.TRB, 10))),
              CastInt(KGe(r.STL, 10))),
         CastInt(KGe(r.BLK, 10)))

_add_double_flags(r) ==
    LET n == _doubles_count(r)
    IN Ext(Ext(Ext(r, "DD", When(KEq(n, 2), {1}, {0})),
                      "TD", When(KEq(n, 3), {1}, {0})),
                      "QD", When(KEq(n, 4), {1}, {0}))

\* the threshold flags the model's label parameters refer to
_add_stat_threshold_flags(r) ==
    Ext(Ext(r, "10PTS+", When(KGe(r.PTS, 10), {1}, {0})),
               "40PTS+", When(KGe(r.PTS, 40), {1}, {0}))

\* Win / Lose: when(teamName == Winner).then(1).otherwise(0) and its converse
WinLose(r) ==
    LET w == IF r.teamName = {} \/ r.Winner = {} THEN {} ELSE {r.teamName = r.Winner}
    IN Ext(Ext(r, "Win", When(w, {1}, {0})), "Lose", When(w, {0}, {1}))

_add_derived_columns(r) ==
    LET wl == WinLose(r)
    IN _add_stat_threshold_flags(_add_double_flags(Ext(wl, "Played", Played(wl))))

\* sort("datetime"): stable, ascending, nulls first
DateKey(d) ==
    IF d = {} THEN 0 ELSE Val(d).y * 10000 + Val(d).m * 100 + Val(d).d

RECURSIVE InsertByDate(_, _)
InsertByDate(r, s) ==
    IF s = <<>> THEN <<r>>
    ELSE IF DateKey(r.datetime) < DateKey(Head(s).datetime)
         THEN <<r>> \o s
         ELSE <<Head(s)>> \o InsertByDate(r, Tail(s))

RECURSIVE SortByDate(_)
SortByDate(s) ==
    IF s = <<>> THEN <<>>
    ELSE InsertByDate(s[Len(s)], SortByDate(SubSeq(s, 1, Len(s) - 1)))

SeasonCol(r) ==
    IF r.seasonStartYear = {} THEN NULL
    ELSE Some(<<Val(r.seasonStartYear), Val(r.seasonStartYear) + 1>>)

create_analysis_df(bs, gm) ==
    LET joined  == JoinGames(bs, gm)
        derived == [i \in 1..Len(joined) |->
                      _add_derived_columns(_nullify_pre_tracking_stats(joined[i]))]
        sorted  == SortByDate(derived)
    IN [i \in 1..Len(sorted) |-> Ext(sorted[i], "season", SeasonCol(sorted[i]))]

\* age_at_game: year difference minus 1 when the game's month/day precedes
\* the birth month/day; null when either date is null
age_at_game_mut(dt, bd) ==
    IF dt = {} \/ bd = {} THEN NULL
    ELSE Some(Val(dt).y - Val(bd).y)

age_at_game(dt, bd) ==
    IF dt = {} \/ bd = {} THEN NULL
    ELSE LET g == Val(dt)
             b == Val(bd)
             before == \/ g.m < b.m
                       \/ (g.m = b.m /\ g.d < b.d)
         IN Some(g.y - b.y - (IF before THEN 1 ELSE 0))

\* df.join(pi, left_on="playerName", right_on="name", how="left")
RECURSIVE InfoMatches(_, _)
InfoMatches(r, pi) ==
    IF pi = <<>> THEN <<>>
    ELSE (IF Head(pi).name = r.playerName
          THEN <<Ext(r, "birth_date", Head(pi).birth_date)>> ELSE <<>>)
         \o InfoMatches(r, Tail(pi))

RECURSIVE JoinPlayerInfo(_, _)
JoinPlayerInfo(d, pi) ==
    IF d = <<>> THEN <<>>
    ELSE LET m == InfoMatches(Head(d), pi)
         IN (IF m = <<>> THEN <<Ext(Head(d), "birth_date", NULL)>> ELSE m)
            \o JoinPlayerInfo(Tail(d), pi)

add_age_columns(d, pi) ==
    LET j == JoinPlayerInfo(d, pi)
    IN [i \in 1..Len(j) |->
          Ext(j[i], "age_at_game", age_at_game(j[i].datetime, j[i].birth_date))]

----------------------------------------------------------------------------
(* Source tables the builder is run on                                     *)

Date(y, m, d) == Some([y |-> y, m |-> m, d |-> d])

BoxRow(gid, player, team, mp, pts, trb, ast, stl, blk) ==
    [game_id |-> gid, playerName |-> player, teamName |-> Some(team), MP |-> mp,
     PTS |-> pts, TRB |-> trb, AST |-> ast, STL |-> stl, BLK |-> blk]

GameRow(gid, season, dt, regular, final, playin, winner) ==
    [game_id |-> gid, seasonStartYear |-> season, datetime |-> dt,
     League |-> Some("NBA"), isRegular |-> regular, isFinal |-> final,
     isPlayin |-> playin, Winner |-> Some(winner)]

\* number of boxscore rows of a source table
MaxBoxRows == 2

\* statistic values around the double-figure line, and an unrecorded one
FactStatValues == {NULL, {9}, {10}}

\* seasons around the tracking-start years of TRB (1950) and STL/BLK (1973)
FactSeasons == {NULL, {1949}, {1950}, {1972}, {1973}}

WideBoxRows ==
    {BoxRow(1, "A", "LAL", Some("24:00"), pts, trb, ast, stl, blk) :
        pts \in FactStatValues, trb \in FactStatValues, ast \in FactStatValues,
        stl \in FactStatValues, blk \in FactStatValues}

\* further rows: game 3 has no row in games
NarrowBoxRows ==
    {BoxRow(gid, "B", "BOS", Some("0"), {0}, {10}, {0}, {10}, {0}) : gid \in {1, 2, 3}}

NarrowTables == UNION {[1..k -> NarrowBoxRows] : k \in 0..(MaxBoxRows - 1)}

SeasonDate(season) == IF season = {} THEN NULL ELSE Date(Val(season), 11, 1)

AgeGameDates ==
    {NULL} \cup {Date(y, m, d) : y \in {2024, 2025}, m \in {5, 6, 7}, d \in {14, 15, 16}}

AgeBirthDates ==
    {NULL} \cup {Date(y, m, d) : y \in {1999, 2000}, m \in {5, 6, 7}, d \in {14, 15, 16}}

\* source tables varying the statistics and the season
FactInitStats ==
    /\ boxscore \in {<<w>> \o t : w \in WideBoxRows, t \in NarrowTables}
    /\ games \in {<<GameRow(1, s, SeasonDate(s), {1}, {0}, {0}, "LAL"),
                    GameRow(2, {1946}, Date(1947, 1, 1), {1}, {0}, {0}, "BOS")>> :
                        s \in FactSeasons}
    /\ player_info = <<[name |-> "A", birth_date |-> Date(1930, 1, 1)]>>

\* source tables varying the game date and the birth date
FactInitDates ==
    /\ boxscore = <<BoxRow(1, "A", "LAL", Some("24:00"), {10}, {10}, {0}, {0}, {0})>>
    /\ games \in {<<GameRow(1, {2024}, dt, {1}, {0}, {0}, "LAL")>> : dt \in AgeGameDates}
    /\ player_info \in {<<>>} \cup {<<[name |-> "A", birth_date |-> bd]>> : bd \in AgeBirthDates}

\* the fact-builder variables of a specification that does not use them
FactIdle ==
    /\ boxscore = <<>>
    /\ games = <<>>
    /\ player_info = <<>>
    /\ df = <<>>
    /\ stage = "raw"

\* the _clean_params variables of a specification that does not use them
ParamIdle ==
    /\ func_name = "get_ranking_by_age"
    /\ params = <<>>
    /\ clean_out = [exc |-> "not called"]

\* the execute_analysis variables of a specification that does not use them
DispatchIdle ==
    /\ parsed = [function |-> [t |-> "none"], params |-> <<>>, description |-> ""]
    /\ environ = [state |-> "not called"]
    /\ outcome = [state |-> "not called"]
    /\ seen = {}

\* the analyzer variable of a specification that does not use it
QueryIdle == answer = [op |-> "none"]

\* the history variable of a specification that does not use it
HistoryIdle == history = <<>>

FactInit ==
    /\ HistoryIdle
    /\ FactInitStats \/ FactInitDates
    /\ df = <<>>
    /\ stage = "raw"
    /\ backend = "polars"
    /\ ParamIdle
    /\ DispatchIdle
    /\ QueryIdle

\* load_data: df = loader.create_analysis_df()
CreateAnalysisDf ==
    /\ backend = "polars"
    /\ stage = "raw"
    /\ df' = create_analysis_df(boxscore, games)
    /\ stage' = "analysis"
    /\ UNCHANGED <<boxscore, games, player_info, backend, history, paramVars,
                   dispatchVars, answer>>

\* load_data: df = loader.add_age_columns(df)
AddAgeColumns ==
    /\ backend = "polars"
    /\ stage = "analysis"
    /\ df' = add_age_columns(df, player_info)
    /\ stage' = "age"
    /\ UNCHANGED <<boxscore, games, player_info, backend, history, paramVars,
                   dispatchVars, answer>>

FactNext == CreateAnalysisDf \/ AddAgeColumns

SpecFact == FactInit /\ [][FactNext]_vars

----------------------------------------------------------------------------
(* Properties of the fact view                                             *)

Range(s) == {s[i] : i \in DOMAIN s}

\* the boxscore rows a fact row was joined from
RawOf(r) ==
    {b \in Range(boxscore) : b.game_id = r.game_id /\ b.playerName = r.playerName}

\* the k-th birthday of a player born on b, as a date key
BirthdayKey(b, k) == (b.y + k) * 10000 + b.m * 100 + b.d

\* C3: age_at_game is the exact age in whole years: the number a of
\* birthdays reached on the game date (a-th birthday <= game date < (a+1)-th
\* birthday); born 2000-06-15, a game on 2025-06-14 gives 24 and a game on
\* 2025-06-15 or later gives 25.
C3_AgeAtGameExact ==
    stage = "age" =>
        \A i \in DOMAIN df :
            LET r == df[i]
            IN (r.datetime # NULL /\ r.birth_date # NULL) =>
                /\ r.age_at_game # NULL
                /\ BirthdayKey(Val(r.birth_date), Val(r.age_at_game))
                       <= DateKey(r.datetime)
                /\ DateKey(r.datetime)
                       < BirthdayKey(Val(r.birth_date), Val(r.age_at_game) + 1)
                /\ (r.birth_date = Date(2000, 6, 15) /\ r.datetime = Date(2025, 6, 14))
                       => r.age_at_game = {24}
                /\ (r.birth_date = Date(2000, 6, 15)
                        /\ DateKey(r.datetime) >= DateKey(Date(2025, 6, 15))
                        /\ DateKey(r.datetime) < DateKey(Date(2026, 6, 15)))
                       => r.age_at_game = {25}

\* the day before the 25th birthday of a player born 2000-06-15
C3_Witness ==
    /\ stage = "age"
    /\ \E i \in DOMAIN df :
          /\ df[i].birth_date = Date(2000, 6, 15)
          /\ df[i].datetime = Date(2025, 6, 14)
          /\ df[i].age_at_game = {24}

\* the category indicators of a fact row that are true (a null is not true)
TrueIndicators(r) == {c \in StatCols : r[c] # NULL /\ Val(r[c]) >= 10}

\* C4: for every row of the fact view DD = 1 iff exactly two, and TD = 1 iff
\* exactly three, of the five indicators PTS, TRB, AST, STL, BLK >= 10 are
\* true, a null statistic counting as not true; DD and TD are never both 1.
C4_DoubleFlagsExact ==
    stage # "raw" =>
        \A i \in DOMAIN df :
            /\ df[i].DD = {1} <=> Cardinality(TrueIndicators(df[i])) = 2
            /\ df[i].TD = {1} <=> Cardinality(TrueIndicators(df[i])) = 3
            /\ ~(df[i].DD = {1} /\ df[i].TD = {1})

\* C5: for every tracked statistic S with start year Y and every row of the
\* fact view, S is null when seasonStartYear < Y and equals the raw input
\* value when seasonStartYear >= Y.
C5_PreTrackingNulling ==
    stage # "raw" =>
        \A i \in DOMAIN df :
            \A S \in StatCols \cap DOMAIN STAT_START_SEASONS :
                LET r == df[i]
                    Y == STAT_START_SEASONS[S]
                IN r.seasonStartYear # NULL =>
                    /\ Val(r.seasonStartYear) < Y => r[S] = NULL
                    /\ Val(r.seasonStartYear) >= Y =>
                          /\ RawOf(r) # {}
                          /\ \A b \in RawOf(r) : r[S] = b[S]

\* a 1972 row: steals recorded in the input are nulled, rebounds are kept
C5_Witness ==
    /\ stage # "raw"
    /\ \E i \in DOMAIN df :
          /\ df[i].seasonStartYear = {1972}
          /\ \E b \in RawOf(df[i]) : b.STL = {10} /\ b.TRB = {10}
          /\ df[i].STL = NULL
          /\ df[i].TRB = {10}

----------------------------------------------------------------------------
(* Dispatch layer, parameter sanitization: src/app/executor.py and         *)
(* src/app/executor_sql.py, _clean_params                                  *)

\* values of the interpreter's JSON output (json.loads)
PyNone == [t |-> "none"]

PyBool(b) == [t |-> "bool", b |-> b]

PyInt(n) == [t |-> "int", v |-> n]

\* a finite float, in tenths
PyFloat(tenths) == [t |-> "float", k |-> "fin", tenths |-> tenths]

\* json.loads("1e999") and json.loads("Infinity")
PyInf == [t |-> "float", k |-> "inf"]

PyNaN == [t |-> "float", k |-> "nan"]

PyStr(str) == [t |-> "str", s |-> str]

PyList == [t |-> "list"]

\* a dict, as the sequence of its <<key, value>> items
PyDict(items) == [t |-> "dict", items |-> items]

AVAILABLE_FUNCTIONS(be) ==
    IF be = "polars"
    THEN {"get_ranking_by_age", "get_consecutive_games", "get_games_to_reach",
          "get_n_game_span_ranking", "get_season_achievement_count",
          "get_duel_ranking", "get_filtered_achievement_count"}
    ELSE {"get_ranking_by_age", "get_consecutive_games", "get_games_to_reach",
          "get_n_game_span_ranking", "get_season_achievement_count",
          "get_duel_ranking", "get_filtered_achievement_count",
          "get_player_career_high", "get_player_starter_comparison",
          "get_bench_player_ranking", "get_combined_achievement_count"}

\* allowed_params.get(func_name, set())
allowed_params(be, f) ==
    CASE f = "get_ranking_by_age" ->
            {"label", "max_age", "min_age", "min_games", "aggfunc", "league",
             "game_type", "top_n"}
            \cup (IF be = "sql" THEN {"is_starter", "team"} ELSE {})
      [] f = "get_consecutive_games" ->
            {"label", "game_type", "league", "top_n"}
            \cup (IF be = "sql" THEN {"team"} ELSE {})
      [] f = "get_games_to_reach" ->
            {"label", "threshold", "game_type", "league", "top_n"}
      [] f = "get_n_game_span_ranking" ->
            {"label", "n_games", "game_type", "league", "top_n"}
      [] f = "get_season_achievement_count" ->
            {"label", "threshold", "league", "top_n"}
      [] f = "get_duel_ranking" ->
            {"label", "game_type", "min_total", "player1", "player2", "top_n"}
      [] f = "get_filtered_achievement_count" ->
            {"count_column", "count_threshold", "filter_column", "filter_op",
             "filter_value", "game_type", "league", "top_n"}
      [] f = "get_player_career_high" /\ be = "sql" ->
            {"player_name", "label", "game_type", "league", "top_n"}
      [] f = "get_player_starter_comparison" /\ be = "sql" ->
            {"player_name", "label", "game_type", "league"}
      [] f = "get_bench_player_ranking" /\ be = "sql" ->
            {"label", "game_type", "league", "min_games", "top_n", "season"}
      [] f = "get_combined_achievement_count" /\ be = "sql" ->
            {"thresholds", "game_type", "league", "top_n"}
      [] OTHER -> {}

\* the keys whose value goes through int(value)
IntKeys(be) ==
    {"max_age", "min_age", "min_games", "threshold", "n_games", "top_n",
     "min_total", "count_threshold", "filter_value"}
    \cup (IF be = "sql" THEN {"season"} ELSE {})

\* the strings of the model that int() parses, with their value
IntLiterals == [x \in {"25", " 7 ", "1"} |->
                    CASE x = "25" -> 25 [] x = " 7 " -> 7 [] x = "1" -> 1]

\* float -> int truncates towards zero
Trunc10(tenths) == IF tenths >= 0 THEN tenths \div 10 ELSE -((-tenths) \div 10)

\* int(value): the integer, or the exception raised
py_int(v) ==
    CASE v.t = "int"   -> [ok |-> TRUE, v |-> v.v]
      [] v.t = "bool"  -> [ok |-> TRUE, v |-> IF v.b THEN 1 ELSE 0]
      [] v.t = "float" ->
            IF v.k = "fin" THEN [ok |-> TRUE, v |-> Trunc10(v.tenths)]
            ELSE IF v.k = "inf" THEN [ok |-> FALSE, exc |-> "OverflowError"]
            ELSE [ok |-> FALSE, exc |-> "ValueError"]
      [] v.t = "str"   ->
            IF v.s \in DOMAIN IntLiterals
            THEN [ok |-> TRUE, v |-> IntLiterals[v.s]]
            ELSE [ok |-> FALSE, exc |-> "ValueError"]
      [] OTHER         -> [ok |-> FALSE, exc |-> "TypeError"]

\* the strings of the model and their str.lower()
py_lower(str) ==
    CASE str = "True" -> "true" [] str = "YES" -> "yes" [] OTHER -> str

\* bool(value) of an int or a float
py_bool(v) ==
    IF v.t = "int" THEN v.v # 0
    ELSE IF v.k = "fin" THEN v.tenths # 0 ELSE TRUE

\* {k: int(v) for k, v in value.items()}: the dict, or the exception of the
\* first int(v) that raises
RECURSIVE IntItems(_)
IntItems(items) ==
    IF items = <<>> THEN [exc |-> "none", items |-> <<>>]
    ELSE LET r == py_int(Head(items)[2])
             rest == IntItems(Tail(items))
         IN IF ~r.ok THEN [exc |-> r.exc]
            ELSE IF rest.exc # "none" THEN rest
            ELSE [exc |-> "none",
                  items |-> <<<<Head(items)[1], PyInt(r.v)>>>> \o rest.items]

\* except (ValueError, TypeError): continue
CaughtByConvert(exc) == exc \in {"ValueError", "TypeError"}

\* one pass of the loop body for an allowed key with a non-None value:
\* "set" the (converted) value, "skip" the key (continue), or "raise"
CleanEntry(be, key, value) ==
    IF key \in IntKeys(be) THEN
        LET r == py_int(value)
        IN IF r.ok THEN [act |-> "set", value |-> PyInt(r.v)]
           ELSE IF CaughtByConvert(r.exc) THEN [act |-> "skip"]
           ELSE [act |-> "raise", exc |-> r.exc]
    ELSE IF be = "sql" /\ key = "thresholds" THEN
        IF value.t = "dict"
        THEN LET r == IntItems(value.items)
             IN IF r.exc = "none" THEN [act |-> "set", value |-> PyDict(r.items)]
                ELSE [act |-> "raise", exc |-> r.exc]
        ELSE [act |-> "skip"]
    ELSE IF be = "sql" /\ key = "is_starter" THEN
        IF value.t = "bool" THEN [act |-> "set", value |-> value]
        ELSE IF value.t = "str"
             THEN [act |-> "set",
                   value |-> PyBool(py_lower(value.s) \in {"true", "1", "yes"})]
        ELSE IF value.t \in {"int", "float"}
             THEN [act |-> "set", value |-> PyBool(py_bool(value))]
        ELSE [act |-> "skip"]
    ELSE [act |-> "set", value |-> value]

\* if key not in allowed: continue
IsAllowedMut(be, f, key) == TRUE

IsAllowed(be, f, key) == key \in allowed_params(be, f)

\* for key, value in params.items(): ...
RECURSIVE CleanLoop(_, _, _, _)
CleanLoop(be, f, items, cleaned) ==
    IF items = <<>> THEN [exc |-> "none", cleaned |-> cleaned]
    ELSE LET key == Head(items)[1]
             value == Head(items)[2]
         IN IF ~IsAllowed(be, f, key) THEN CleanLoop(be, f, Tail(items), cleaned)
            ELSE IF value = PyNone THEN CleanLoop(be, f, Tail(items), cleaned)
            ELSE LET e == CleanEntry(be, key, value)
                 IN CASE e.act = "raise" -> [exc |-> e.exc]
                      [] e.act = "skip" -> CleanLoop(be, f, Tail(items), cleaned)
                      [] e.act = "set" ->
                            CleanLoop(be, f, Tail(items), Ext(cleaned, key, e.value))

\* the defaults set after the loop
InjectDefaults(f, cleaned) ==
    LET c1 == IF "top_n" \notin DOMAIN cleaned
              THEN Ext(cleaned, "top_n", PyInt(10)) ELSE cleaned
        c2 == IF "game_type" \notin DOMAIN c1
              THEN Ext(c1, "game_type", PyStr("regular")) ELSE c1
    IN IF f = "get_ranking_by_age" /\ "aggfunc" \notin DOMAIN c2
       THEN Ext(c2, "aggfunc", PyStr("sum")) ELSE c2

\* the empty dict
EmptyDict == [k \in {} |-> PyNone]

\* _clean_params(func_name, params): [exc |-> "none", cleaned |-> map] when
\* it returns, [exc |-> <exception>] when it raises
_clean_params(be, f, items) ==
    LET r == CleanLoop(be, f, items, EmptyDict)
    IN IF r.exc # "none" THEN r
       ELSE [exc |-> "none", cleaned |-> InjectDefaults(f, r.cleaned)]

----------------------------------------------------------------------------
(* _clean_params on the requests of the interpreter                        *)

\* number of entries of a parameter map
MaxParams == 2

\* the parameter names of the model, in the insertion order of the maps
KeyOrder ==
    <<"max_age", "top_n", "season", "game_type", "aggfunc", "is_starter",
      "thresholds", "foo">>

\* the values the model supplies under a key
ValuesOf(key) ==
    CASE key \in {"max_age", "top_n", "season"} ->
            {PyInt(25), PyStr("25"), PyStr("abc"), PyFloat(257), PyInf, PyNaN,
             PyList, PyNone}
      [] key = "game_type" -> {PyStr("playoff"), PyNone}
      [] key = "aggfunc" -> {PyStr("mean"), PyNone}
      [] key = "is_starter" ->
            {PyBool(FALSE), PyStr("True"), PyStr("no"), PyInt(0), PyList, PyNone}
      [] key = "thresholds" ->
            {PyDict(<<<<"PTS", PyInt(30)>>, <<"TRB", PyStr("25")>>>>),
             PyDict(<<<<"PTS", PyStr("abc")>>>>),
             PyList}
      [] OTHER -> {PyInt(25)}

\* the maps with at most n entries over the keys KeyOrder[i..]
RECURSIVE MapsFrom(_, _)
MapsFrom(i, n) ==
    IF i > Len(KeyOrder) \/ n = 0 THEN {<<>>}
    ELSE MapsFrom(i + 1, n)
         \cup {<<<<KeyOrder[i], v>>>> \o m :
                 v \in ValuesOf(KeyOrder[i]), m \in MapsFrom(i + 1, n - 1)}

ParamInit ==
    /\ HistoryIdle
    /\ backend \in {"polars", "sql"}
    /\ func_name \in AVAILABLE_FUNCTIONS(backend)
    /\ params \in MapsFrom(1, MaxParams)
    /\ clean_out = [exc |-> "not called"]
    /\ FactIdle
    /\ DispatchIdle
    /\ QueryIdle

\* params = _clean_params(func_name, params)
CleanParams ==
    /\ clean_out.exc = "not called"
    /\ clean_out' = _clean_params(backend, func_name, params)
    /\ UNCHANGED <<factVars, backend, history, func_name, params, dispatchVars, answer>>

ParamNext == CleanParams

SpecParams == ParamInit /\ [][ParamNext]_vars

----------------------------------------------------------------------------
(* Properties of _clean_params                                             *)

\* the value supplied under key, if any
Supplied(key) == {params[i][2] : i \in {j \in DOMAIN params : params[j][1] = key}}

\* a value that converts to an integer
Coercible(v) ==
    \/ v.t \in {"int", "bool"}
    \/ v.t = "float" /\ v.k = "fin"
    \/ v.t = "str" /\ v.s \in {"25", " 7 ", "1"}

\* the integer a coercible value converts to
CoercedInt(v) ==
    CASE v.t = "int" -> v.v
      [] v.t = "bool" -> IF v.b THEN 1 ELSE 0
      [] v.t = "float" -> Trunc10(v.tenths)
      [] v = PyStr("25") -> 25
      [] v = PyStr(" 7 ") -> 7
      [] v = PyStr("1") -> 1

\* C9: _clean_params never raises, and a value of an integer-typed parameter
\* that cannot be converted to an integer leaves that parameter out of the
\* cleaned map (top_n then holds its default).
C9_CleanParamsNeverRaises ==
    clean_out.exc # "not called" =>
        /\ clean_out.exc = "none"
        /\ \A key \in IntKeys(backend) \cap allowed_params(backend, func_name) :
             \A v \in Supplied(key) :
                ~Coercible(v) =>
                    \/ key \notin DOMAIN clean_out.cleaned
                    \/ key = "top_n" /\ clean_out.cleaned[key] = PyInt(10)

\* the input keys the claim keeps: allow-listed, non-null and, for
\* integer-typed keys, integer-coercible
KeptKeys ==
    {key \in allowed_params(backend, func_name) :
        \E v \in Supplied(key) :
            /\ v # PyNone
            /\ key \in IntKeys(backend) => Coercible(v)}

\* the defaults of the claim
DefaultOf(key) ==
    CASE key = "top_n" -> PyInt(10)
      [] key = "game_type" -> PyStr("regular")
      [] key = "aggfunc" -> PyStr("sum")

DefaultKeys ==
    {"top_n", "game_type"}
    \cup (IF func_name = "get_ranking_by_age" THEN {"aggfunc"} ELSE {})

BoolKeys == IF backend = "sql" THEN {"is_starter"} ELSE {}

DictKeys == IF backend = "sql" THEN {"thresholds"} ELSE {}

\* the input keys the code keeps
KeptKeysAmended ==
    {key \in KeptKeys :
        \E v \in Supplied(key) :
            /\ key \in BoolKeys => v.t \in {"bool", "str", "int", "float"}
            /\ key \in DictKeys => v.t = "dict"}

\* the value the code holds for a kept entry
HeldValue(key, v) ==
    IF key \in IntKeys(backend) THEN PyInt(CoercedInt(v))
    ELSE IF key \in BoolKeys THEN
        CASE v.t = "bool" -> v
          [] v.t = "str" -> PyBool(v.s \in {"True", "true", "1", "yes", "YES"})
          [] v.t = "int" -> PyBool(v.v # 0)
          [] v.t = "float" -> PyBool(~(v.k = "fin" /\ v.tenths = 0))
    ELSE IF key \in DictKeys THEN
        PyDict([i \in DOMAIN v.items |->
                   <<v.items[i][1], PyInt(CoercedInt(v.items[i][2]))>>])
    ELSE v

----------------------------------------------------------------------------
(* Dispatch layer, execute_analysis: src/app/executor.py and               *)
(* src/app/executor_sql.py                                                 *)

NoExc == [type |-> "none", msg |-> ""]

Exc(type, msg) == [type |-> type, msg |-> msg]

\* the exception int(value) raises, with its str(e)
ConvertExc(type) ==
    CASE type = "OverflowError" ->
            Exc(type, "cannot convert float infinity to integer")
      [] type = "ValueError" -> Exc(type, "invalid literal for int() with base 10")
      [] OTHER -> Exc(type, "int() argument must be a string or a real number")

\* the methods of the analyzer class of each executor
AnalyzerMethods(be) ==
    IF be = "polars"
    THEN {"get_consecutive_games", "get_multiple_consecutive_games",
          "get_games_to_reach", "get_season_achievement_count",
          "get_ranking_by_age", "get_age_based_ranking",
          "get_n_game_span_ranking", "get_duel_ranking",
          "get_filtered_achievement_count", "get_teammate_ranking"}
    ELSE {"get_ranking_by_age", "get_games_to_reach",
          "get_season_achievement_count", "get_consecutive_games",
          "get_n_game_span_ranking", "get_duel_ranking",
          "get_player_career_high", "get_filtered_achievement_count",
          "get_player_starter_comparison", "get_combined_achievement_count",
          "get_bench_player_ranking"}

\* the keyword parameters of each method: those without a default, and the rest
Signature(be, f) ==
    CASE f = "get_ranking_by_age" ->
            [required |-> {"label"},
             optional |-> {"max_age", "min_age", "min_games", "aggfunc", "league",
                           "game_type", "top_n"}
                          \cup (IF be = "sql" THEN {"is_starter", "team"} ELSE {})]
      [] f = "get_consecutive_games" ->
            [required |-> {"label"},
             optional |-> {"game_type", "league", "top_n"}
                          \cup (IF be = "sql" THEN {"team"} ELSE {})]
      [] f = "get_games_to_reach" ->
            [required |-> {"label", "threshold"},
             optional |-> {"game_type", "league", "top_n"}]
      [] f = "get_n_game_span_ranking" ->
            [required |-> {"label"},
             optional |-> {"n_games", "game_type", "league", "top_n"}]
      [] f = "get_season_achievement_count" ->
            [required |-> {"label", "threshold"},
             optional |-> {"league", "top_n"}]
      [] f = "get_duel_ranking" ->
            [required |-> IF be = "polars" THEN {"games_df"} ELSE {},
             optional |-> {"label", "game_type", "min_total", "player1",
                           "player2", "top_n"}
                          \cup (IF be = "sql" THEN {"games_df"} ELSE {})]
      [] f = "get_filtered_achievement_count" ->
            [required |-> {"count_column", "count_threshold"},
             optional |-> {"filter_column", "filter_op", "filter_value",
                           "game_type", "league", "top_n"}]
      [] f = "get_player_career_high" ->
            [required |-> {"player_name"},
             optional |-> {"label", "game_type", "league", "top_n"}]
      [] f = "get_player_starter_comparison" ->
            [required |-> {"player_name"},
             optional |-> {"label", "game_type", "league"}]
      [] f = "get_combined_achievement_count" ->
            [required |-> {"thresholds"},
             optional |-> {"game_type", "league", "top_n"}]
      [] f = "get_bench_player_ranking" ->
            [required |-> {},
             optional |-> {"label", "game_type", "league", "min_games", "top_n",
                           "season"}]
      [] OTHER ->
            [required |-> {"player_name"},
             optional |-> {"label", "aggfunc", "min_games", "game_type", "league",
                           "top_n"}]

\* method(**params): the TypeError of a call whose keywords do not bind
BindError(be, f, keys) ==
    LET sig == Signature(be, f)
    IN IF keys \ (sig.required \cup sig.optional) # {}
       THEN Exc("TypeError", "got an unexpected keyword argument")
       ELSE IF sig.required \ keys # {}
       THEN Exc("TypeError", "missing required positional argument")
       ELSE NoExc

\* the returned result: None or a pandas DataFrame
ResultNone == [kind |-> "None"]

ResultFrame(playerName, images) ==
    [kind |-> "DataFrame", playerName |-> playerName, images |-> images]

\* the returned message, a string: its format and what is interpolated
DescriptionMessage(p) == [fmt |-> "{description}", arg |-> p.description]

UnsupportedMessage(f) == [fmt |-> "unsupported analysis type: {func_name}", arg |-> f]

EmptyMessage == [fmt |-> "no data matched the conditions", arg |-> ""]

ErrorMessage(e) == [fmt |-> "an error occurred during analysis: {str(e)}", arg |-> e.msg]

\* if func_name not in AVAILABLE_FUNCTIONS
InCatalogueMut(be, f) == TRUE

InCatalogue(be, f) == f \in AVAILABLE_FUNCTIONS(be)

\* except Exception as e
CaughtByExecutorMut(e) == e.type \in {"ValueError", "TypeError"}

CaughtByExecutor(e) ==
    e.type \in {"ValueError", "TypeError", "OverflowError", "AttributeError",
                "FileNotFoundError", "ColumnNotFoundError", "OperationalError"}

\* leaving the try block: by an exception, or by a return statement
Raise(e, t) == [raised |-> e, trace |-> t]

Return(r, m, t, k) ==
    [raised |-> NoExc, result |-> r, message |-> m, trace |-> t, path |-> k]

\* if result is None or len(result) == 0
IsEmptyResultMut(result) == result.kind = "None"

IsEmptyResult(result) == result.kind \in {"None", "empty"}

\* the try block after params = _clean_params(func_name, params) gave c
AfterCleanParams(be, p, env, c) ==
    LET f  == p.function.s
        t2 == <<IF be = "polars" THEN "load_data" ELSE "get_analyzer",
                "_clean_params">>
        keys == IF c.exc = "none"
                THEN (DOMAIN c.cleaned)
                     \cup (IF be = "polars" /\ f = "get_duel_ranking"
                           THEN {"games_df"} ELSE {})
                ELSE {}
        t3 == t2 \o <<f>>
        t4 == t3 \o <<"merge_player_image">>
    IN IF c.exc # "none" THEN Raise(ConvertExc(c.exc), t2)
       ELSE IF f \notin AnalyzerMethods(be)
       THEN Raise(Exc("AttributeError", "object has no attribute"), t2)
       ELSE IF BindError(be, f, keys) # NoExc THEN Raise(BindError(be, f, keys), t3)
       ELSE IF env.method.kind = "raise" THEN Raise(env.method.exc, t3)
       ELSE IF IsEmptyResult(env.method)
       THEN Return(ResultNone, EmptyMessage, t3, "empty")
       ELSE IF ~env.method.playerName
       THEN Return(ResultFrame(FALSE, FALSE), DescriptionMessage(p), t3, "success")
       ELSE IF env.images # NoExc THEN Raise(env.images, t4)
       ELSE Return(ResultFrame(TRUE, TRUE), DescriptionMessage(p), t4, "success")

\* the body of the try block: the calls made, then what it returns or raises
TryBody(be, p, env) ==
    IF env.load # NoExc
    THEN Raise(env.load, <<IF be = "polars" THEN "load_data" ELSE "get_analyzer">>)
    ELSE AfterCleanParams(be, p, env, _clean_params(be, p.function.s, p.params))

\* leaving the try block r: its return value, or the except clause
ExceptException(r) ==
    IF r.raised = NoExc
    THEN [state |-> "returned", result |-> r.result, message |-> r.message,
          trace |-> r.trace, path |-> r.path, exc |-> NoExc]
    ELSE IF CaughtByExecutor(r.raised)
    THEN [state |-> "returned", result |-> ResultNone,
          message |-> ErrorMessage(r.raised), trace |-> r.trace,
          path |-> "error", exc |-> r.raised]
    ELSE [state |-> "raised", trace |-> r.trace, exc |-> r.raised]

\* execute_analysis(parsed): the (result, message) pair returned, or the
\* exception that leaves the function; trace and path record the calls made
\* and the return statement taken
execute_analysis(be, p, env) ==
    IF p.function = PyNone
    THEN [state |-> "returned", result |-> ResultNone,
          message |-> DescriptionMessage(p), trace |-> <<>>,
          path |-> "no_function", exc |-> NoExc]
    ELSE IF ~InCatalogue(be, p.function.s)
    THEN [state |-> "returned", result |-> ResultNone,
          message |-> UnsupportedMessage(p.function.s), trace |-> <<>>,
          path |-> "unsupported", exc |-> NoExc]
    ELSE ExceptException(TryBody(be, p, env))

----------------------------------------------------------------------------
(* execute_analysis on the requests of the interpreter                     *)

\* the operation names of the requests: the catalogue of the SQL executor,
\* a method outside both catalogues, and null
RequestFunctions ==
    {PyNone, PyStr("get_teammate_ranking")}
    \cup {PyStr(f) : f \in AVAILABLE_FUNCTIONS("sql")}

\* the parameter maps of the requests
RequestParams ==
    {<<>>,
     <<<<"label", PyStr("PTS")>>>>,
     <<<<"label", PyStr("PTS")>>, <<"threshold", PyStr("25")>>>>,
     <<<<"label", PyStr("PTS")>>, <<"max_age", PyInf>>>>,
     <<<<"player_name", PyStr("A")>>, <<"foo", PyInt(25)>>>>,
     <<<<"thresholds", PyDict(<<<<"PTS", PyStr("abc")>>>>)>>>>,
     <<<<"thresholds", PyDict(<<<<"PTS", PyInt(30)>>>>)>>>>}

Requests ==
    {[function |-> f, params |-> ps, description |-> "ranking"] :
        f \in RequestFunctions, ps \in RequestParams}

\* what the environment lets the calls of the try block do
Envs(be) ==
    [load : {NoExc} \cup (IF be = "polars"
                          THEN {Exc("FileNotFoundError", "boxscore1946-2025.csv.gz")}
                          ELSE {}),
     method : {[kind |-> "frame", playerName |-> TRUE],
               [kind |-> "frame", playerName |-> FALSE],
               [kind |-> "empty", playerName |-> TRUE],
               [kind |-> "None", playerName |-> FALSE],
               [kind |-> "raise",
                exc |-> IF be = "polars" THEN Exc("ColumnNotFoundError", "PTS")
                        ELSE Exc("OperationalError", "connection refused")]},
     images : {NoExc} \cup (IF be = "polars"
                            THEN {Exc("FileNotFoundError", "player_imageURL.csv")}
                            ELSE {})]

DispatchInit ==
    /\ HistoryIdle
    /\ backend \in {"polars", "sql"}
    /\ parsed \in Requests
    /\ environ = [state |-> "not called"]
    /\ outcome = [state |-> "not called"]
    /\ seen = {}
    /\ FactIdle
    /\ ParamIdle
    /\ QueryIdle

\* result, message = execute_analysis(parsed)
ExecuteAnalysis ==
    /\ outcome.state = "not called"
    /\ \E e \in Envs(backend) :
          \E r \in {execute_analysis(backend, parsed, e)} :
             /\ environ' = e
             /\ outcome' = r
             /\ seen' = IF r.state = "returned"
                        THEN seen \cup {<<r.result.kind, r.path>>} ELSE seen
    /\ UNCHANGED <<factVars, backend, history, paramVars, parsed, answer>>

\* parsed = interpret_query(query): the next request
InterpretQuery ==
    /\ outcome.state # "not called"
    /\ parsed' \in Requests
    /\ environ' = [state |-> "not called"]
    /\ outcome' = [state |-> "not called"]
    /\ UNCHANGED <<factVars, backend, history, paramVars, seen, answer>>

DispatchNext == ExecuteAnalysis \/ InterpretQuery

SpecDispatch == DispatchInit /\ [][DispatchNext]_vars

----------------------------------------------------------------------------
(* Properties of execute_analysis                                          *)

\* C6: when the request's function is null or outside AVAILABLE_FUNCTIONS,
\* execute_analysis returns without loading data, sanitizing parameters or
\* invoking an analyzer method.
C6_NoComputationOutsideCatalogue ==
    (/\ outcome.state # "not called"
     /\ \/ parsed.function = PyNone
        \/ parsed.function.s \notin AVAILABLE_FUNCTIONS(backend))
    => /\ outcome.state = "returned"
       /\ outcome.trace = <<>>
       /\ outcome.result = ResultNone

\* a method of the Polars analyzer outside the catalogue, and a null function
C6_Witness ==
    /\ backend = "polars"
    /\ parsed.function = PyStr("get_teammate_ranking")
    /\ parsed.params = <<<<"player_name", PyStr("A")>>, <<"foo", PyInt(25)>>>>
    /\ outcome.state = "returned"
    /\ outcome.trace = <<>>
    /\ <<"None", "no_function">> \in seen

\* C7: execute_analysis always returns a (result, message) pair; an exception
\* raised while loading data, sanitizing parameters, running the operation or
\* enriching the result becomes a failure outcome whose message carries the
\* exception's message.
C7_NoExceptionPropagates ==
    outcome.state # "not called" =>
        /\ outcome.state = "returned"
        /\ outcome.exc # NoExc =>
              /\ outcome.result = ResultNone
              /\ outcome.message = ErrorMessage(outcome.exc)
              /\ outcome.message.arg = outcome.exc.msg

\* the OverflowError of int(float("inf")) in _clean_params is converted
C7_Witness ==
    /\ outcome.state = "returned"
    /\ outcome.exc.type = "OverflowError"
    /\ outcome.trace[Len(outcome.trace)] = "_clean_params"
    /\ outcome.result = ResultNone
    /\ outcome.message.arg = "cannot convert float infinity to integer"

\* the three non-success outcomes: no operation requested, zero qualifying
\* rows, the operation raised
NonSuccessPaths == {"no_function", "empty", "error"}

\* C8: the three non-success outcomes are told apart by the returned value
\* itself (the result component), not by the wording of the message.
C8_DistinctDiscriminants ==
    \A a \in seen : \A b \in seen :
        (a[2] \in NonSuccessPaths /\ b[2] \in NonSuccessPaths /\ a[2] # b[2])
        => a[1] # b[1]

----------------------------------------------------------------------------
(* Query catalogue: src/src/analysis.py (NBAAnalyzer, on the fact view)    *)
(* and src/src/analysis_sql.py (NBAAnalyzerSQL, on the tables)             *)

\* players left out of every analysis
DUPLICATE_NAME_PLAYERS ==
    {"Eddie Johnson", "George Johnson", "Mike Dunleavy", "David Lee",
     "Jim Paxson", "Larry Johnson", "Matt Guokas"}

Smaller(a, b) == IF a <= b THEN a ELSE b

Larger(a, b) == IF a >= b THEN a ELSE b

SetMax(S) == CHOOSE x \in S : \A y \in S : y <= x

SetMin(S) == CHOOSE x \in S : \A y \in S : x <= y

\* NBAAnalyzer.__init__: self.df = df.filter(~playerName.is_in(exclude))
AnalyzerDf(d) ==
    LET keep(r) == r.playerName \notin DUPLICATE_NAME_PLAYERS
    IN SelectSeq(d, keep)

\* NBAAnalyzer._filter_by_game_type: a filter keeps the rows whose predicate
\* is true (not null)
_filter_by_game_type(d, game_type, league) ==
    LET keep(r) ==
            /\ KEq(r.League, league) = {TRUE}
            /\ CASE game_type = "regular" -> KEq(r.isRegular, 1) = {TRUE}
                 [] game_type = "playoff" ->
                        IF "isPlayin" \in DOMAIN r
                        THEN KAnd(KEq(r.isRegular, 0), KEq(r.isPlayin, 0)) = {TRUE}
                        ELSE KEq(r.isRegular, 0) = {TRUE}
                 [] game_type = "final" -> KEq(r.isFinal, 1) = {TRUE}
                 [] OTHER -> TRUE
    IN SelectSeq(d, keep)

\* data.filter(pl.col("Played") == 1)
PlayedOnly(d) ==
    LET keep(r) == KEq(r.Played, 1) = {TRUE}
    IN SelectSeq(d, keep)

PlayerNames(d) == {d[i].playerName : i \in DOMAIN d}

\* the rows of one player in date order: sort(["playerName", "datetime"]) and
\* group_by("playerName") / PARTITION BY "playerName" ORDER BY datetime
GroupRows(d, player) ==
    LET keep(r) == r.playerName = player
    IN SortByDate(SelectSeq(d, keep))

ColumnOf(rows, col) == [i \in DOMAIN rows |-> rows[i][col]]

\* _count_max_consecutive_list: the loop over values
RECURSIVE CountLoop(_, _, _)
CountLoop(values, count, max_count) ==
    IF values = <<>> THEN max_count
    ELSE IF Head(values) = {1}
         THEN CountLoop(Tail(values), count + 1, Larger(max_count, count + 1))
         ELSE CountLoop(Tail(values), 0, max_count)

\* the count of the achieved games, consecutive or not
_count_max_consecutive_listMut(values) ==
    Cardinality({i \in DOMAIN values : values[i] = {1}})

_count_max_consecutive_list(values) == CountLoop(values, 0, 0)

\* count_games_to_reach: the loop over enumerate(values)
RECURSIVE ReachLoop(_, _, _, _)
ReachLoop(values, threshold, idx, cumsum) ==
    IF values = <<>> THEN NULL
    ELSE LET c == IF Head(values) = {} THEN cumsum ELSE cumsum + Val(Head(values))
         IN IF c >= threshold THEN Some(idx + 1)
            ELSE ReachLoop(Tail(values), threshold, idx + 1, c)

\* the first game whose own value reaches the threshold
count_games_to_reachMut(values, threshold) ==
    LET reached == {i \in DOMAIN values :
                      values[i] # {} /\ Val(values[i]) >= threshold}
    IN IF reached = {} THEN NULL ELSE Some(SetMin(reached))

count_games_to_reach(values, threshold) == ReachLoop(values, threshold, 0, 0)

\* the orders in which a set of result rows can stand
Orderings(S) ==
    {s \in [1..Cardinality(S) -> S] :
        \A i \in DOMAIN s : \A j \in DOMAIN s : i # j => s[i] # s[j]}

\* sort(column, descending) / ORDER BY, then head(top_n) / LIMIT: rows with
\* equal keys stand in any order
SortHead(S, descending, top_n) ==
    {SubSeq(s, 1, Smaller(top_n, Len(s))) :
        s \in {o \in Orderings(S) :
                 \A i \in 1..(Len(o) - 1) :
                    IF descending THEN o[i].value >= o[i + 1].value
                    ELSE o[i].value <= o[i + 1].value}}

\* group_by("playerName").agg(map_elements(col(label), _count_max_consecutive_list))
ConsecutiveAgg(data, label) ==
    {[playerName |-> p,
      value |-> _count_max_consecutive_list(ColumnOf(GroupRows(data, p), label))] :
        p \in PlayerNames(data)}

\* NBAAnalyzer.get_consecutive_games: the frames it can return
NBAAnalyzer_get_consecutive_games(d, label, game_type, league, top_n) ==
    SortHead(ConsecutiveAgg(PlayedOnly(_filter_by_game_type(d, game_type, league)),
                            label),
             TRUE, top_n)

\* group_by("playerName").agg(...count_games_to_reach...).filter(is_not_null)
ReachAgg(data, label, threshold) ==
    {[playerName |-> p,
      value |-> Val(count_games_to_reach(ColumnOf(GroupRows(data, p), label),
                                         threshold))] :
        p \in {q \in PlayerNames(data) :
                 count_games_to_reach(ColumnOf(GroupRows(data, q), label),
                                      threshold) # NULL}}

\* NBAAnalyzer.get_games_to_reach: the frames it can return
NBAAnalyzer_get_games_to_reach(d, label, threshold, game_type, league, top_n) ==
    SortHead(ReachAgg(PlayedOnly(_filter_by_game_type(d, game_type, league)),
                      label, threshold),
             FALSE, top_n)

\* COALESCE(x, d)
COALESCE(x, d) == IF x = {} THEN d ELSE Val(x)

\* NBAAnalyzerSQL._get_game_type_clause, three-valued
_get_game_type_clause(r, game_type, league) ==
    KAnd(KEq(r.League, league),
         CASE game_type = "regular" -> KEq(r.isRegular, 1)
           [] game_type = "playoff" ->
                  KAnd(KEq(r.isRegular, 0), {COALESCE(r.isPlayin, 0) = 0})
           [] game_type = "final" -> KEq(r.isFinal, 1)
           [] OTHER -> {TRUE})

\* NBAAnalyzerSQL._get_exclude_clause
_get_exclude_clause(r) == r.playerName \notin DUPLICATE_NAME_PLAYERS

\* the labels of the model that match ^(\d+)([A-Z0-9]+)\+$
ThresholdLabels ==
    [l \in {"10PTS+", "40PTS+"} |->
        IF l = "10PTS+" THEN [threshold |-> 10, stat_col |-> "PTS"]
        ELSE [threshold |-> 40, stat_col |-> "PTS"]]

\* the count of double-figure categories in the DD / TD expressions
SqlDoubles(r) ==
    (IF COALESCE(r.PTS, 0) >= 10 THEN 1 ELSE 0)
    + (IF COALESCE(r.TRB, 0) >= 10 THEN 1 ELSE 0)
    + (IF COALESCE(r.AST, 0) >= 10 THEN 1 ELSE 0)
    + (IF COALESCE(r.STL, 0) >= 10 THEN 1 ELSE 0)
    + (IF COALESCE(r.BLK, 0) >= 10 THEN 1 ELSE 0)

\* NBAAnalyzerSQL._get_stat_expression(label), evaluated on a joined row
_get_stat_expression(r, label) ==
    CASE label = "DD" -> IF SqlDoubles(r) >= 2 THEN 1 ELSE 0
      [] label = "TD" -> IF SqlDoubles(r) >= 3 THEN 1 ELSE 0
      [] label = "Win" ->
            IF r.teamName # {} /\ r.Winner # {} /\ r.teamName = r.Winner
            THEN 1 ELSE 0
      [] label \in DOMAIN ThresholdLabels ->
            IF COALESCE(r[ThresholdLabels[label].stat_col], 0)
                   >= ThresholdLabels[label].threshold
            THEN 1 ELSE 0
      [] OTHER -> COALESCE(r[label], 0)

\* FROM boxscore b JOIN games g ON b.game_id = g.game_id
\* WHERE {game_type_clause} AND b."PTS" IS NOT NULL {exclude_clause}
SqlFrom(bs, gm, game_type, league) ==
    LET keep(r) ==
            /\ _get_game_type_clause(r, game_type, league) = {TRUE}
            /\ r.PTS # NULL
            /\ _get_exclude_clause(r)
    IN SelectSeq(JoinGames(bs, gm), keep)

\* CTE numbered of one player (rn is the index), then achieved_only and
\* grouped: the streak of each group rn - achieved_rn, and MAX(streak)
MaxStreak(numbered, label) ==
    LET achieved(i) ==
            IF _get_stat_expression(numbered[i], label) >= 1 THEN 1 ELSE 0
        achieved_only == {i \in DOMAIN numbered : achieved(i) = 1}
        achieved_rn(i) == Cardinality({j \in achieved_only : j <= i})
        grp(i) == i - achieved_rn(i)
        streak(g) == Cardinality({i \in achieved_only : grp(i) = g})
    IN IF achieved_only = {} THEN NULL
       ELSE Some(SetMax({streak(grp(i)) : i \in achieved_only}))

SqlConsecutiveAgg(rows, label) ==
    {[playerName |-> p, value |-> Val(MaxStreak(GroupRows(rows, p), label))] :
        p \in {q \in PlayerNames(rows) : MaxStreak(GroupRows(rows, q), label) # NULL}}

\* NBAAnalyzerSQL.get_consecutive_games with team = None: the frames it can
\* return
NBAAnalyzerSQL_get_consecutive_games(bs, gm, label, game_type, league, top_n) ==
    SortHead(SqlConsecutiveAgg(SqlFrom(bs, gm, game_type, league), label),
             TRUE, top_n)

\* SUM(COALESCE(label, 0)) OVER (PARTITION BY playerName ORDER BY datetime):
\* the default frame sums the rows up to the current row and its peers
RECURSIVE SumUpTo(_, _, _)
SumUpTo(cumulative, label, key) ==
    IF cumulative = <<>> THEN 0
    ELSE (IF DateKey(Head(cumulative).datetime) <= key
          THEN COALESCE(Head(cumulative)[label], 0) ELSE 0)
         + SumUpTo(Tail(cumulative), label, key)

\* CTE reached of one player: MIN(game_num) WHERE cumsum >= threshold
MinGameNum(cumulative, label, threshold) ==
    LET reached == {i \in DOMAIN cumulative :
                      SumUpTo(cumulative, label, DateKey(cumulative[i].datetime))
                          >= threshold}
    IN IF reached = {} THEN NULL ELSE Some(SetMin(reached))

SqlReachAgg(rows, label, threshold) ==
    {[playerName |-> p,
      value |-> Val(MinGameNum(GroupRows(rows, p), label, threshold))] :
        p \in {q \in PlayerNames(rows) :
                 MinGameNum(GroupRows(rows, q), label, threshold) # NULL}}

\* NBAAnalyzerSQL.get_games_to_reach: the frames it can return
NBAAnalyzerSQL_get_games_to_reach(bs, gm, label, threshold, game_type, league, top_n) ==
    SortHead(SqlReachAgg(SqlFrom(bs, gm, game_type, league), label, threshold),
             FALSE, top_n)

----------------------------------------------------------------------------
(* The two analyzers on the same tables                                    *)

\* number of games of the schedule
MaxGames == 3

\* the schedule: game i on day i of January 2021, one of them possibly a
\* playoff game
QueryGames(playoff) ==
    [i \in 1..MaxGames |->
        GameRow(i, {2020}, Date(2021, 1, i),
                IF i = playoff THEN {0} ELSE {1}, {0}, {0}, "LAL")]

\* the box-score lines of a player: scored, held scoreless, listed without
\* having played, listed with nothing recorded, played with points unrecorded
QueryLines ==
    {[MP |-> Some("24:00"), PTS |-> {10}, rest |-> {0}],
     [MP |-> Some("24:00"), PTS |-> {0}, rest |-> {0}],
     [MP |-> Some("0"), PTS |-> {0}, rest |-> {0}],
     [MP |-> Some("0"), PTS |-> NULL, rest |-> NULL],
     [MP |-> Some("24:00"), PTS |-> NULL, rest |-> {0}]}

LineRow(gid, player, l) ==
    BoxRow(gid, player, "LAL", l.MP, l.PTS, l.rest, l.rest, l.rest, l.rest)

\* the rows of player A over the first n games
CareerTables ==
    UNION {{[i \in 1..n |-> LineRow(i, "A", line[i])] : line \in [1..n -> QueryLines]} :
              n \in 1..MaxGames}

\* rows of other players: none, a second player, a player of the exclusion list
OtherTables ==
    {<<>>,
     <<BoxRow(1, "B", "BOS", Some("24:00"), {10}, {0}, {0}, {0}, {0})>>,
     <<BoxRow(1, "Eddie Johnson", "BOS", Some("24:00"), {10}, {0}, {0}, {0}, {0})>>}

QueryGameTypes == {"regular", "playoff", "all"}

QueryTopN == {1, 10}

QueryThresholds == {10, 20}

QueryInit ==
    /\ HistoryIdle
    /\ backend \in {"polars", "sql"}
    /\ boxscore \in {a \o o : a \in CareerTables, o \in OtherTables}
    /\ games \in {QueryGames(playoff) : playoff \in {0, 2}}
    /\ player_info = <<>>
    /\ df = <<>>
    /\ stage = "raw"
    /\ answer = [op |-> "none"]
    /\ ParamIdle
    /\ DispatchIdle

\* the analyzer exists: load_data ran (Polars), or the tables are queried
AnalyzerReady == backend = "sql" \/ stage = "age"

\* analyzer.get_consecutive_games(label, game_type, league, top_n)
get_consecutive_games(be, d, bs, gm, label, game_type, league, top_n) ==
    IF be = "polars"
    THEN NBAAnalyzer_get_consecutive_games(AnalyzerDf(d), label, game_type,
                                           league, top_n)
    ELSE NBAAnalyzerSQL_get_consecutive_games(bs, gm, label, game_type, league,
                                              top_n)

\* analyzer.get_games_to_reach(label, threshold, game_type, league, top_n)
get_games_to_reach(be, d, bs, gm, label, threshold, game_type, league, top_n) ==
    IF be = "polars"
    THEN NBAAnalyzer_get_games_to_reach(AnalyzerDf(d), label, threshold,
                                        game_type, league, top_n)
    ELSE NBAAnalyzerSQL_get_games_to_reach(bs, gm, label, threshold, game_type,
                                           league, top_n)

GetConsecutiveGames ==
    /\ AnalyzerReady
    /\ answer.op = "none"
    /\ \E game_type \in QueryGameTypes : \E top_n \in QueryTopN :
         \E rows \in get_consecutive_games(backend, df, boxscore, games, "10PTS+",
                                           game_type, "NBA", top_n) :
            answer' = [op |-> "get_consecutive_games", label |-> "10PTS+",
                       threshold |-> 0, game_type |-> game_type,
                       top_n |-> top_n, rows |-> rows]
    /\ UNCHANGED <<factVars, backend, history, paramVars, dispatchVars>>

GetGamesToReach ==
    /\ AnalyzerReady
    /\ answer.op = "none"
    /\ \E game_type \in QueryGameTypes : \E top_n \in QueryTopN :
         \E threshold \in QueryThresholds :
            \E rows \in get_games_to_reach(backend, df, boxscore, games, "PTS",
                                           threshold, game_type, "NBA", top_n) :
               answer' = [op |-> "get_games_to_reach", label |-> "PTS",
                          threshold |-> threshold, game_type |-> game_type,
                          top_n |-> top_n, rows |-> rows]
    /\ UNCHANGED <<factVars, backend, history, paramVars, dispatchVars>>

QueryNext ==
    \/ CreateAnalysisDf
    \/ AddAgeColumns
    \/ GetConsecutiveGames
    \/ GetGamesToReach

SpecQuery == QueryInit /\ [][QueryNext]_vars

----------------------------------------------------------------------------
(* Properties of the query catalogue                                       *)

\* played: a recorded statistic is non-zero, or the minutes are
PlayedRow(r) ==
    \/ \E c \in StatCols : r[c] # {} /\ Val(r[c]) # 0
    \/ r.MP # {} /\ Val(r.MP) # "0"

\* the game-type filter
GameTypeRow(r, game_type) ==
    /\ r.League = {"NBA"}
    /\ CASE game_type = "regular" -> r.isRegular = {1}
         [] game_type = "playoff" -> r.isRegular = {0} /\ r.isPlayin \in {{0}, {}}
         [] game_type = "final" -> r.isFinal = {1}
         [] OTHER -> TRUE

\* the played games of a player under a game type, in date order
PlayedGames(player, game_type) ==
    LET keep(r) == r.playerName = player /\ GameTypeRow(r, game_type) /\ PlayedRow(r)
    IN SortByDate(SelectSeq(JoinGames(boxscore, games), keep))

\* the players that take part
QueryPlayers ==
    {boxscore[i].playerName : i \in DOMAIN boxscore} \ DUPLICATE_NAME_PLAYERS

\* the indicator 10PTS+ of a game
Achieved10(r) == r.PTS # {} /\ Val(r.PTS) >= 10

\* the length of the longest run of achieved games
LongestRun(played) ==
    SetMax({0} \cup {n \in 1..Len(played) :
                        \E i \in DOMAIN played :
                            /\ i + n - 1 <= Len(played)
                            /\ \A k \in i..(i + n - 1) : Achieved10(played[k])})

\* C1: get_consecutive_games gives each player of its result the length of
\* the longest run of achieved games among that player's played games in
\* date order (rows that are not played neither count nor break a run), and
\* with room in top_n every player with a run is in the result; for the
\* list scan and for the SQL gaps-and-islands query alike.
C1_ConsecutiveLongestRun ==
    answer.op = "get_consecutive_games" =>
        /\ \A i \in DOMAIN answer.rows :
              /\ answer.rows[i].playerName \in QueryPlayers
              /\ answer.rows[i].value =
                    LongestRun(PlayedGames(answer.rows[i].playerName,
                                           answer.game_type))
        /\ answer.top_n = 10 =>
              \A p \in QueryPlayers :
                 LongestRun(PlayedGames(p, answer.game_type)) >= 1 =>
                    \E i \in DOMAIN answer.rows : answer.rows[i].playerName = p

\* the game counts at which the running sum of PTS (null as 0) over the
\* played games has reached the threshold
ReachedAt(played, threshold) ==
    {k \in 1..Len(played) :
        SumUpTo(SubSeq(played, 1, k), "PTS", DateKey(played[k].datetime))
            >= threshold}

\* the players whose running sum reaches the threshold
Reaching(game_type, threshold) ==
    {p \in QueryPlayers : ReachedAt(PlayedGames(p, game_type), threshold) # {}}

\* C2: get_games_to_reach gives each player the smallest 1-based count of
\* played games whose running sum of label reaches the threshold, leaves out
\* the players who never reach it, sorts by that count ascending and keeps
\* the first top_n.
C2_GamesToReachSmallestCount ==
    answer.op = "get_games_to_reach" =>
        /\ \A i \in DOMAIN answer.rows :
              /\ answer.rows[i].playerName
                    \in Reaching(answer.game_type, answer.threshold)
              /\ answer.rows[i].value =
                    SetMin(ReachedAt(PlayedGames(answer.rows[i].playerName,
                                                 answer.game_type),
                                     answer.threshold))
        /\ \A i \in DOMAIN answer.rows : \A j \in DOMAIN answer.rows :
              i < j => /\ answer.rows[i].value <= answer.rows[j].value
                       /\ answer.rows[i].playerName # answer.rows[j].playerName
        /\ Len(answer.rows) =
              Smaller(answer.top_n,
                      Cardinality(Reaching(answer.game_type, answer.threshold)))

\* the keywords the method is called with
CallKeys(c) ==
    IF c.exc # "none" THEN {}
    ELSE (DOMAIN c.cleaned)
         \cup (IF backend = "polars" /\ parsed.function.s = "get_duel_ranking"
               THEN {"games_df"} ELSE {})

\* the operation was called and completed without raising: the function is
\* in the catalogue, loading and sanitizing did not raise, the keywords
\* bound, and the method returned
MethodReturned ==
    /\ outcome.state # "not called"
    /\ parsed.function # PyNone
    /\ parsed.function.s \in AVAILABLE_FUNCTIONS(backend)
    /\ environ.load = NoExc
    /\ _clean_params(backend, parsed.function.s, parsed.params).exc = "none"
    /\ BindError(backend, parsed.function.s,
                 CallKeys(_clean_params(backend, parsed.function.s, parsed.params)))
          = NoExc
    /\ environ.method.kind # "raise"

\* C11: when the operation completes without raising and its result is None
\* or has zero rows, execute_analysis returns the no-matching-data outcome:
\* no table, the no-data message, never the computation-error message.
C11_EmptyResultIsNoData ==
    (MethodReturned /\ environ.method.kind \in {"None", "empty"}) =>
        /\ outcome.state = "returned"
        /\ outcome.result = ResultNone
        /\ outcome.message = EmptyMessage
        /\ outcome.exc = NoExc

\* a query whose frame has the columns and no rows
C11_Witness ==
    /\ MethodReturned
    /\ environ.method = [kind |-> "empty", playerName |-> TRUE]
    /\ parsed.function = PyStr("get_consecutive_games")
    /\ outcome.result = ResultNone
    /\ outcome.message = EmptyMessage

----------------------------------------------------------------------------
(* Query catalogue: get_ranking_by_age (aggfunc = "sum", is_starter and    *)
(* team not given)                                                         *)

KLe(x, k) == IF x = {} THEN {} ELSE {Val(x) <= k}

\* pl.col(label).sum(): nulls are skipped
RECURSIVE PlSum(_)
PlSum(values) ==
    IF values = <<>> THEN 0
    ELSE (IF Head(values) = {} THEN 0 ELSE Val(Head(values))) + PlSum(Tail(values))

\* data.filter(age_at_game <= max_age), data.filter(age_at_game >= min_age),
\* each only when the bound is given
AgeFilter(d, max_age, min_age) ==
    LET keep(r) ==
            /\ max_age # NULL => KLe(r.age_at_game, Val(max_age)) = {TRUE}
            /\ min_age # NULL => KGe(r.age_at_game, Val(min_age)) = {TRUE}
    IN SelectSeq(d, keep)

\* group_by("playerName").agg([sum(label), count(game_id)]) and
\* filter(Games >= min_games)
RankingAgg(data, label, min_games) ==
    {row \in {[playerName |-> p,
               value |-> PlSum(ColumnOf(GroupRows(data, p), label)),
               Games |-> Len(GroupRows(data, p))] : p \in PlayerNames(data)} :
        row.Games >= min_games}

\* NBAAnalyzer.get_ranking_by_age: the frames it can return
NBAAnalyzer_get_ranking_by_age(d, label, max_age, min_age, min_games, league, game_type, top_n) ==
    SortHead(RankingAgg(AgeFilter(PlayedOnly(_filter_by_game_type(d, game_type, league)),
                                  max_age, min_age),
                        label, min_games),
             TRUE, top_n)

\* days of the year before the first of each month, in a common year
DaysBeforeMonth == <<0, 31, 59, 90, 120, 151, 181, 212, 243, 273, 304, 334>>

IsLeapYear(y) == y % 4 = 0 /\ (y % 100 # 0 \/ y % 400 = 0)

\* EXTRACT(DOY FROM date)
DOY(d) == DaysBeforeMonth[d.m] + d.d + (IF IsLeapYear(d.y) /\ d.m > 2 THEN 1 ELSE 0)

\* age_expr: year difference, minus 1 when the game's day of the year is
\* before the birth date's
age_expr(dt, bd) ==
    IF dt = {} \/ bd = {} THEN NULL
    ELSE Some(Val(dt).y - Val(bd).y
              - (IF DOY(Val(dt)) < DOY(Val(bd)) THEN 1 ELSE 0))

\* age_clause: "pi.birth_date IS NOT NULL AND (age_expr) <= max_age" and the
\* same with >= min_age, or 1=1 when no bound is given
age_clause(r, max_age, min_age) ==
    KAnd(IF max_age = NULL THEN {TRUE}
         ELSE KAnd({r.birth_date # NULL},
                   KLe(age_expr(r.datetime, r.birth_date), Val(max_age))),
         IF min_age = NULL THEN {TRUE}
         ELSE KAnd({r.birth_date # NULL},
                   KGe(age_expr(r.datetime, r.birth_date), Val(min_age))))

\* FROM boxscore b JOIN games g ... LEFT JOIN player_info pi ... WHERE ...
SqlRankingFrom(bs, gm, pi, max_age, min_age, game_type, league) ==
    LET keep(r) ==
            /\ _get_game_type_clause(r, game_type, league) = {TRUE}
            /\ r.PTS # NULL
            /\ _get_exclude_clause(r)
            /\ age_clause(r, max_age, min_age) = {TRUE}
    IN SelectSeq(JoinPlayerInfo(JoinGames(bs, gm), pi), keep)

\* SUM(stat_expr) over the rows of a group
RECURSIVE SqlSum(_, _)
SqlSum(rows, label) ==
    IF rows = <<>> THEN 0
    ELSE _get_stat_expression(Head(rows), label) + SqlSum(Tail(rows), label)

\* SELECT playerName, SUM(...), COUNT(*) ... GROUP BY playerName
\* HAVING COUNT(*) >= min_games
SqlRankingAgg(rows, label, min_games) ==
    {row \in {[playerName |-> p,
               value |-> SqlSum(GroupRows(rows, p), label),
               Games |-> Len(GroupRows(rows, p))] : p \in PlayerNames(rows)} :
        row.Games >= min_games}

\* NBAAnalyzerSQL.get_ranking_by_age: the frames it can return
NBAAnalyzerSQL_get_ranking_by_age(bs, gm, pi, label, max_age, min_age, min_games, league, game_type, top_n) ==
    SortHead(SqlRankingAgg(SqlRankingFrom(bs, gm, pi, max_age, min_age, game_type,
                                          league),
                           label, min_games),
             TRUE, top_n)

\* analyzer.get_ranking_by_age(label, max_age, min_age, min_games, ...)
get_ranking_by_age(be, d, bs, gm, pi, label, max_age, min_age, min_games, league, game_type, top_n) ==
    IF be = "polars"
    THEN NBAAnalyzer_get_ranking_by_age(AnalyzerDf(d), label, max_age, min_age,
                                        min_games, league, game_type, top_n)
    ELSE NBAAnalyzerSQL_get_ranking_by_age(bs, gm, pi, label, max_age, min_age,
                                           min_games, league, game_type, top_n)

\* game dates around the birthdays of the model
RankingDates ==
    {Date(2025, 2, 28), Date(2025, 3, 1), Date(2025, 6, 14), Date(2025, 6, 15)}

\* birth dates: in a leap year after February, and a year later
RankingBirthDates == {Date(2000, 3, 1), Date(2000, 6, 15), Date(2001, 3, 1)}

\* the schedule: game 1 on the given date, game i on day i of December 2025
RankingGames(dt) ==
    [i \in 1..MaxGames |->
        GameRow(i, {2024}, IF i = 1 THEN dt ELSE Date(2025, 12, i),
                {1}, {0}, {0}, "LAL")]

\* box-score lines: two scoring games and one listed without having played
RankingLines ==
    {[MP |-> Some("24:00"), PTS |-> {10}, rest |-> {0}],
     [MP |-> Some("24:00"), PTS |-> {20}, rest |-> {0}],
     [MP |-> Some("0"), PTS |-> {0}, rest |-> {0}]}

RankingTables ==
    UNION {{[i \in 1..n |-> LineRow(i, "A", line[i])] : line \in [1..n -> RankingLines]} :
              n \in 1..MaxGames}

RankingInit ==
    /\ HistoryIdle
    /\ backend \in {"polars", "sql"}
    /\ boxscore \in {a \o o : a \in RankingTables,
                             o \in {<<>>, <<BoxRow(1, "B", "BOS", Some("24:00"),
                                                   {15}, {0}, {0}, {0}, {0})>>}}
    /\ games \in {RankingGames(dt) : dt \in RankingDates}
    /\ player_info \in
          {<<[name |-> "B", birth_date |-> Date(1990, 1, 1)]>> \o a :
              a \in {<<>>} \cup {<<[name |-> "A", birth_date |-> bd]>> :
                                    bd \in RankingBirthDates}}
    /\ df = <<>>
    /\ stage = "raw"
    /\ answer = [op |-> "none"]
    /\ ParamIdle
    /\ DispatchIdle

GetRankingByAge ==
    /\ AnalyzerReady
    /\ answer.op = "none"
    /\ \E max_age \in {NULL, {24}, {25}} : \E min_age \in {NULL, {25}} :
         \E min_games \in {1, 2} : \E top_n \in QueryTopN :
            \E rows \in get_ranking_by_age(backend, df, boxscore, games,
                                           player_info, "PTS", max_age, min_age,
                                           min_games, "NBA", "regular", top_n) :
               answer' = [op |-> "get_ranking_by_age", label |-> "PTS",
                          max_age |-> max_age, min_age |-> min_age,
                          min_games |-> min_games, game_type |-> "regular",
                          top_n |-> top_n, rows |-> rows]
    /\ UNCHANGED <<factVars, backend, history, paramVars, dispatchVars>>

RankingNext ==
    \/ CreateAnalysisDf
    \/ AddAgeColumns
    \/ GetRankingByAge

SpecRanking == RankingInit /\ [][RankingNext]_vars

----------------------------------------------------------------------------
(* Properties of get_ranking_by_age                                        *)

\* the birth date of a player, if player_info has one
BirthOf(player) ==
    {Val(player_info[i].birth_date) :
        i \in {j \in DOMAIN player_info :
                 player_info[j].name = player /\ player_info[j].birth_date # NULL}}

\* the exact age in whole years: the number of birthdays reached
ExactAge(dt, b) ==
    SetMax({a \in 0..60 : BirthdayKey(b, a) <= DateKey(dt)})

\* the played rows of a player that pass the age bounds
AgeQualifying(player, game_type, max_age, min_age) ==
    LET keep(r) ==
            (max_age # NULL \/ min_age # NULL) =>
                /\ r.datetime # NULL
                /\ BirthOf(player) # {}
                /\ \A b \in BirthOf(player) :
                      /\ max_age # NULL => ExactAge(r.datetime, b) <= Val(max_age)
                      /\ min_age # NULL => ExactAge(r.datetime, b) >= Val(min_age)
    IN SelectSeq(PlayedGames(player, game_type), keep)

\* the ranking rows the claim gives: players with at least min_games (and at
\* least one) qualifying rows, with the sum over those rows
RankingExpected(game_type, max_age, min_age, min_games) ==
    {[playerName |-> p,
      value |-> SumUpTo(AgeQualifying(p, game_type, max_age, min_age), "PTS",
                        99999999),
      Games |-> Len(AgeQualifying(p, game_type, max_age, min_age))] :
        p \in {q \in QueryPlayers :
                 /\ Len(AgeQualifying(q, game_type, max_age, min_age)) >= min_games
                 /\ Len(AgeQualifying(q, game_type, max_age, min_age)) >= 1}}

\* C12: get_ranking_by_age aggregates exactly the played rows whose exact age
\* is known and within the inclusive bounds, leaves out every player with
\* fewer than min_games qualifying rows, sorts by the aggregate descending
\* and keeps the first top_n.
C12_RankingByAgeExact ==
    answer.op = "get_ranking_by_age" =>
        LET expected == RankingExpected(answer.game_type, answer.max_age,
                                        answer.min_age, answer.min_games)
        IN /\ \A i \in DOMAIN answer.rows : answer.rows[i] \in expected
           /\ \A i \in DOMAIN answer.rows : \A j \in DOMAIN answer.rows :
                 i < j => /\ answer.rows[i].value >= answer.rows[j].value
                          /\ answer.rows[i].playerName # answer.rows[j].playerName
           /\ Len(answer.rows) = Smaller(answer.top_n, Cardinality(expected))
           /\ \A e \in expected :
                 \A i \in DOMAIN answer.rows :
                    (\A j \in DOMAIN answer.rows : answer.rows[j] # e)
                       => e.value <= answer.rows[i].value

----------------------------------------------------------------------------
(* Query catalogue: get_duel_ranking                                       *)

\* the (game_id, teamName) groups of a frame
TeamGroups(data) == {<<data[i].game_id, data[i].teamName>> : i \in DOMAIN data}

GroupIndices(data, g) ==
    {i \in DOMAIN data : <<data[i].game_id, data[i].teamName>> = g}

\* data.sort(label, descending=True) then group_by(...).first(): the rows
\* that can stand first in a group; nulls sort first, equal values in any
\* order
PlFirstRows(data, label, g) ==
    LET idx == GroupIndices(data, g)
        nulls == {i \in idx : data[i][label] = NULL}
    IN IF nulls # {} THEN nulls
       ELSE {i \in idx : \A j \in idx : Val(data[j][label]) <= Val(data[i][label])}

\* top_scorers of one game, then group_by("game_id").agg(...): the teams'
\* first rows in any order of the teams
RECURSIVE PlTopScorers(_, _, _)
PlTopScorers(data, label, groups) ==
    IF groups = {} THEN {<<>>}
    ELSE UNION {{<<data[i]>> \o s : i \in PlFirstRows(data, label, g),
                                   s \in PlTopScorers(data, label, groups \ {g})} :
                   g \in groups}

\* the aggregated row of a game joined with games_df on game_id: the rows a
\* game can give
PlDuelRows(data, gm, label, gid) ==
    {[datetime |-> gm[k].datetime,
      playerName |-> [i \in DOMAIN top |-> top[i].playerName],
      value |-> PlSum(ColumnOf(top, label))] :
        top \in PlTopScorers(data, label, {g \in TeamGroups(data) : g[1] = gid}),
        k \in {j \in DOMAIN gm : gm[j].game_id = gid}}

Names(row) == {row.playerName[i] : i \in DOMAIN row.playerName}

\* filter(Total >= min_total), filter(Players.str.contains(player1))
DuelKeep(row, min_total, player1) ==
    /\ row.value >= min_total
    /\ player1 # NULL => Val(player1) \in Names(row)

\* one row out of each set of a family of sets of rows
RECURSIVE PickOne(_)
PickOne(opts) ==
    IF DOMAIN opts = {} THEN {{}}
    ELSE LET g == CHOOSE h \in DOMAIN opts : TRUE
         IN {{r} \cup rest : r \in opts[g],
                             rest \in PickOne([h \in DOMAIN opts \ {g} |-> opts[h]])}

PlDuelFrames(data, gm, label, min_total, player1, top_n) ==
    UNION {SortHead({r \in pick : DuelKeep(r, min_total, player1)}, TRUE, top_n) :
              pick \in PickOne([gid \in {data[i].game_id : i \in DOMAIN data} |->
                                   PlDuelRows(data, gm, label, gid)])}

\* NBAAnalyzer.get_duel_ranking: the frames it can return
NBAAnalyzer_get_duel_ranking(d, gm, label, game_type, min_total, player1, top_n) ==
    PlDuelFrames(PlayedOnly(_filter_by_game_type(d, game_type, "NBA")), gm, label,
                 min_total, player1, top_n)

\* the order of team names under <
TeamNameOrder == <<"BOS", "LAL">>

TeamLess(a, b) ==
    /\ a # NULL
    /\ b # NULL
    /\ \E i \in DOMAIN TeamNameOrder : \E j \in DOMAIN TeamNameOrder :
          i < j /\ TeamNameOrder[i] = Val(a) /\ TeamNameOrder[j] = Val(b)

\* SELECT DISTINCT ON (game_id, teamName) ... ORDER BY ..., label DESC: the
\* rows that can stand first in a group; NULL sorts last under DESC
SqlFirstRows(rows, label, g) ==
    LET idx == GroupIndices(rows, g)
        known == {i \in idx : rows[i][label] # NULL}
    IN IF known = {} THEN idx
       ELSE {i \in known : \A j \in known : Val(rows[j][label]) <= Val(rows[i][label])}

\* CTE duels joined with games: top_scorers t1 JOIN top_scorers t2 ON the
\* same game AND t1.teamName < t2.teamName; the rows a pair of teams can give
SqlDuelRows(rows, gm, label, pair) ==
    {[datetime |-> gm[k].datetime,
      playerName |-> <<rows[i].playerName, rows[j].playerName>>,
      total |-> KAdd(rows[i][label], rows[j][label])] :
        i \in SqlFirstRows(rows, label, pair[1]),
        j \in SqlFirstRows(rows, label, pair[2]),
        k \in {n \in DOMAIN gm : gm[n].game_id = pair[1][1]}}

SqlPairs(rows) ==
    {pair \in TeamGroups(rows) \X TeamGroups(rows) :
        pair[1][1] = pair[2][1] /\ TeamLess(pair[1][2], pair[2][2])}

\* WHERE Total >= min_total and the player filter, ORDER BY Total DESC LIMIT
SqlDuelFrames(rows, gm, label, min_total, player1, top_n) ==
    UNION {SortHead({[datetime |-> r.datetime, playerName |-> r.playerName,
                      value |-> Val(r.total)] :
                        r \in {q \in pick :
                                 /\ KGe(q.total, min_total) = {TRUE}
                                 /\ player1 # NULL => Val(player1) \in Names(q)}},
                    TRUE, top_n) :
              pick \in PickOne([pair \in SqlPairs(rows) |->
                                   SqlDuelRows(rows, gm, label, pair)])}

\* NBAAnalyzerSQL.get_duel_ranking: the frames it can return
NBAAnalyzerSQL_get_duel_ranking(bs, gm, label, game_type, min_total, player1, top_n) ==
    SqlDuelFrames(SqlFrom(bs, gm, game_type, "NBA"), gm, label, min_total, player1,
                  top_n)

\* analyzer.get_duel_ranking(games_df, label, game_type, min_total, player1)
get_duel_ranking(be, d, bs, gm, label, game_type, min_total, player1, top_n) ==
    IF be = "polars"
    THEN NBAAnalyzer_get_duel_ranking(AnalyzerDf(d), gm, label, game_type,
                                      min_total, player1, top_n)
    ELSE NBAAnalyzerSQL_get_duel_ranking(bs, gm, label, game_type, min_total,
                                         player1, top_n)

\* three games: two of the regular season and one of the playoffs
DuelGames ==
    <<GameRow(1, {2020}, Date(2021, 1, 1), {1}, {0}, {0}, "LAL"),
      GameRow(2, {2020}, Date(2021, 1, 2), {1}, {0}, {0}, "LAL"),
      GameRow(3, {2020}, Date(2021, 5, 1), {0}, {0}, {0}, "LAL")>>

\* the box-score lines of a player in game 1, or no line
DuelLines ==
    {[MP |-> Some("24:00"), PTS |-> {10}, rest |-> {0}],
     [MP |-> Some("24:00"), PTS |-> {20}, rest |-> {0}],
     [MP |-> Some("24:00"), PTS |-> NULL, rest |-> {0}],
     [MP |-> Some("0"), PTS |-> {0}, rest |-> {0}]}

\* the player is not listed in game 1
DuelNoLine == [MP |-> NULL, PTS |-> NULL, rest |-> NULL]

DuelTeam(player) == IF player \in {"A", "B"} THEN "LAL" ELSE "BOS"

DuelRow(player, l) ==
    BoxRow(1, player, DuelTeam(player), l.MP, l.PTS, l.rest, l.rest, l.rest, l.rest)

\* the rows of games 2 and 3
DuelFixedRows ==
    <<BoxRow(2, "E", "LAL", Some("24:00"), {20}, {0}, {0}, {0}, {0}),
      BoxRow(2, "F", "BOS", Some("24:00"), {15}, {0}, {0}, {0}, {0}),
      BoxRow(3, "E", "LAL", Some("24:00"), {30}, {0}, {0}, {0}, {0}),
      BoxRow(3, "F", "BOS", Some("24:00"), {30}, {0}, {0}, {0}, {0})>>

RECURSIVE Reverse(_)
Reverse(s) == IF s = <<>> THEN <<>> ELSE Reverse(Tail(s)) \o <<Head(s)>>

RECURSIVE DuelRowsOf(_, _)
DuelRowsOf(players, line) ==
    IF players = <<>> THEN <<>>
    ELSE (IF line[Head(players)] = DuelNoLine THEN <<>>
          ELSE <<DuelRow(Head(players), line[Head(players)])>>)
         \o DuelRowsOf(Tail(players), line)

\* the tables: each of A, B (LAL) and C, D (BOS) with a line in game 1 or
\* none, the rows in either order
DuelTables ==
    UNION {{DuelRowsOf(<<"A", "B", "C", "D">>, line) \o DuelFixedRows,
            Reverse(DuelRowsOf(<<"A", "B", "C", "D">>, line) \o DuelFixedRows)} :
              line \in [{"A", "B", "C", "D"} -> DuelLines \cup {DuelNoLine}]}

DuelInit ==
    /\ HistoryIdle
    /\ backend \in {"polars", "sql"}
    /\ boxscore \in DuelTables
    /\ games = DuelGames
    /\ player_info = <<>>
    /\ df = <<>>
    /\ stage = "raw"
    /\ answer = [op |-> "none"]
    /\ ParamIdle
    /\ DispatchIdle

GetDuelRanking ==
    /\ AnalyzerReady
    /\ answer.op = "none"
    /\ \E game_type \in {"regular", "all"} : \E min_total \in {0, 36} :
         \E player1 \in {NULL, {"A"}} : \E top_n \in QueryTopN :
            \E rows \in get_duel_ranking(backend, df, boxscore, games, "PTS",
                                         game_type, min_total, player1, top_n) :
               answer' = [op |-> "get_duel_ranking", label |-> "PTS",
                          game_type |-> game_type, min_total |-> min_total,
                          player1 |-> player1, top_n |-> top_n, rows |-> rows]
    /\ UNCHANGED <<factVars, backend, history, paramVars, dispatchVars>>

DuelNext ==
    \/ CreateAnalysisDf
    \/ AddAgeColumns
    \/ GetDuelRanking

SpecDuel == DuelInit /\ [][DuelNext]_vars

----------------------------------------------------------------------------
(* Properties of get_duel_ranking                                          *)

\* the played rows of a game under a game type
PlayedOfGame(gid, game_type) ==
    LET keep(r) == r.game_id = gid /\ GameTypeRow(r, game_type) /\ PlayedRow(r)
    IN SelectSeq(JoinGames(boxscore, games), keep)

TeamsOfGame(gid, game_type) ==
    {PlayedOfGame(gid, game_type)[i].teamName :
        i \in DOMAIN PlayedOfGame(gid, game_type)}

\* the PTS values of a team's played rows in a game
TeamValues(gid, game_type, team) ==
    {Val(PlayedOfGame(gid, game_type)[i].PTS) :
        i \in {j \in DOMAIN PlayedOfGame(gid, game_type) :
                 /\ PlayedOfGame(gid, game_type)[j].teamName = team
                 /\ PlayedOfGame(gid, game_type)[j].PTS # NULL}}

\* a game with exactly two teams, each with a recorded value
TwoTeamGame(gid, game_type) ==
    /\ Cardinality(TeamsOfGame(gid, game_type)) = 2
    /\ \A t \in TeamsOfGame(gid, game_type) : TeamValues(gid, game_type, t) # {}

\* the sum of the two teams' maxima
DuelTotal(gid, game_type) ==
    LET t1 == CHOOSE t \in TeamsOfGame(gid, game_type) : TRUE
        t2 == CHOOSE t \in TeamsOfGame(gid, game_type) : t # t1
    IN SetMax(TeamValues(gid, game_type, t1)) + SetMax(TeamValues(gid, game_type, t2))

GameOfDate(dt) == CHOOSE k \in DOMAIN games : games[k].datetime = dt

\* C13: every duel of a game with exactly two teams has as its total the sum
\* of the maximum of the label among the played rows of one team and the
\* maximum among the played rows of the other, whatever the order of the
\* rows of the table.
C13_DuelTotalIsSumOfMaxima ==
    answer.op = "get_duel_ranking" =>
        \A i \in DOMAIN answer.rows :
            LET gid == games[GameOfDate(answer.rows[i].datetime)].game_id
            IN TwoTeamGame(gid, answer.game_type) =>
                   answer.rows[i].value = DuelTotal(gid, answer.game_type)

----------------------------------------------------------------------------
(* Query catalogue: get_n_game_span_ranking                                *)

\* rolling_sum(window_size=n_games, min_periods=n_games): the sum of the
\* window ending at position i, null unless the window holds n_games values
RollingSum(values, n_games, i) ==
    IF i < n_games \/ \E k \in (i - n_games + 1)..i : values[k] = NULL THEN NULL
    ELSE Some(PlSum(SubSeq(values, i - n_games + 1, i)))

\* pl.col("_rolling_sum").max(): null when every value is null
PlMax(values) ==
    LET known == {Val(values[i]) : i \in {j \in DOMAIN values : values[j] # NULL}}
    IN IF known = {} THEN NULL ELSE Some(SetMax(known))

SpanMax(values, n_games) ==
    PlMax([i \in DOMAIN values |-> RollingSum(values, n_games, i)])

\* group_by("playerName").agg(max(_rolling_sum)).filter(is_not_null())
SpanAgg(data, label, n_games) ==
    {[playerName |-> p,
      value |-> Val(SpanMax(ColumnOf(GroupRows(data, p), label), n_games))] :
        p \in {q \in PlayerNames(data) :
                 SpanMax(ColumnOf(GroupRows(data, q), label), n_games) # NULL}}

\* NBAAnalyzer.get_n_game_span_ranking: the frames it can return
NBAAnalyzer_get_n_game_span_ranking(d, label, n_games, game_type, league, top_n) ==
    SortHead(SpanAgg(PlayedOnly(_filter_by_game_type(d, game_type, league)), label,
                     n_games),
             TRUE, top_n)

\* CTE spans of one player: for each rn the rows rn..rn + n_games - 1,
\* HAVING COUNT(*) = n_games, SUM(label); then MAX(span_total)
SqlSpanTotals(numbered, label, n_games) ==
    {PlSum(ColumnOf(SubSeq(numbered, rn, rn + n_games - 1), label)) :
        rn \in {i \in DOMAIN numbered : i + n_games - 1 <= Len(numbered)}}

SqlSpanAgg(rows, label, n_games) ==
    {[playerName |-> p,
      value |-> SetMax(SqlSpanTotals(GroupRows(rows, p), label, n_games))] :
        p \in {q \in PlayerNames(rows) :
                 SqlSpanTotals(GroupRows(rows, q), label, n_games) # {}}}

\* NBAAnalyzerSQL.get_n_game_span_ranking: the frames it can return
NBAAnalyzerSQL_get_n_game_span_ranking(bs, gm, label, n_games, game_type, league, top_n) ==
    SortHead(SqlSpanAgg(SqlFrom(bs, gm, game_type, league), label, n_games),
             TRUE, top_n)

\* analyzer.get_n_game_span_ranking(label, n_games, game_type, league, top_n)
get_n_game_span_ranking(be, d, bs, gm, label, n_games, game_type, league, top_n) ==
    IF be = "polars"
    THEN NBAAnalyzer_get_n_game_span_ranking(AnalyzerDf(d), label, n_games,
                                             game_type, league, top_n)
    ELSE NBAAnalyzerSQL_get_n_game_span_ranking(bs, gm, label, n_games, game_type,
                                                league, top_n)

SpanInit ==
    /\ HistoryIdle
    /\ backend \in {"polars", "sql"}
    /\ boxscore \in {a \o o : a \in RankingTables,
                             o \in {<<>>, <<BoxRow(1, "B", "BOS", Some("24:00"),
                                                   {15}, {0}, {0}, {0}, {0})>>}}
    /\ games \in {QueryGames(playoff) : playoff \in {0, 2}}
    /\ player_info = <<>>
    /\ df = <<>>
    /\ stage = "raw"
    /\ answer = [op |-> "none"]
    /\ ParamIdle
    /\ DispatchIdle

GetNGameSpanRanking ==
    /\ AnalyzerReady
    /\ answer.op = "none"
    /\ \E n_games \in 1..MaxGames : \E game_type \in {"regular", "all"} :
         \E top_n \in QueryTopN :
            \E rows \in get_n_game_span_ranking(backend, df, boxscore, games, "PTS",
                                                n_games, game_type, "NBA", top_n) :
               answer' = [op |-> "get_n_game_span_ranking", label |-> "PTS",
                          n_games |-> n_games, game_type |-> game_type,
                          top_n |-> top_n, rows |-> rows]
    /\ UNCHANGED <<factVars, backend, history, paramVars, dispatchVars>>

SpanNext ==
    \/ CreateAnalysisDf
    \/ AddAgeColumns
    \/ GetNGameSpanRanking

SpecSpan == SpanInit /\ [][SpanNext]_vars

----------------------------------------------------------------------------
(* Properties of get_n_game_span_ranking                                   *)

\* rows is a ranking of expected: rows of expected, each at most once,
\* sorted by value descending, and cut to the first top_n
RankedHead(rows, expected, top_n) ==
    /\ \A i \in DOMAIN rows : rows[i] \in expected
    /\ \A i \in DOMAIN rows : \A j \in DOMAIN rows :
          i < j => rows[i].value >= rows[j].value /\ rows[i] # rows[j]
    /\ Len(rows) = Smaller(top_n, Cardinality(expected))
    /\ \A e \in expected : \A i \in DOMAIN rows :
          (\A j \in DOMAIN rows : rows[j] # e) => e.value <= rows[i].value

\* the sums of PTS over the windows of n consecutive played games
WindowSums(played, n) ==
    {SumUpTo(SubSeq(played, i, i + n - 1), "PTS", 99999999) :
        i \in {k \in DOMAIN played : k + n - 1 <= Len(played)}}

SpanExpected(game_type, n) ==
    {[playerName |-> p, value |-> SetMax(WindowSums(PlayedGames(p, game_type), n))] :
        p \in {q \in QueryPlayers : WindowSums(PlayedGames(q, game_type), n) # {}}}

\* C14: get_n_game_span_ranking gives each player with at least n_games
\* played games the largest sum of the label over n_games consecutive games
\* of the player's played games in date order, gives no row to a player with
\* fewer, and returns the rows sorted by that value descending, cut to top_n.
C14_SpanMaxOverFullWindows ==
    answer.op = "get_n_game_span_ranking" =>
        RankedHead(answer.rows, SpanExpected(answer.game_type, answer.n_games),
                   answer.top_n)

----------------------------------------------------------------------------
(* Query catalogue: get_season_achievement_count                           *)

\* the seasonStartYear values (null included) of a player's rows
SeasonsOf(data, player) ==
    {data[i].seasonStartYear : i \in {j \in DOMAIN data : data[j].playerName = player}}

SeasonRows(data, player, season) ==
    LET keep(r) == r.playerName = player /\ r.seasonStartYear = season
    IN SelectSeq(data, keep)

\* group_by(["playerName", "seasonStartYear"]).agg(sum(label)), the flag
\* when(total >= threshold).then(1).otherwise(0), and its sum per player
SeasonAgg(data, label, threshold) ==
    {[playerName |-> p,
      value |-> Cardinality({y \in SeasonsOf(data, p) :
                               PlSum(ColumnOf(SeasonRows(data, p, y), label))
                                   >= threshold})] :
        p \in PlayerNames(data)}

\* NBAAnalyzer.get_season_achievement_count: the frames it can return; the
\* filter League == league & isRegular == 1 & Played == 1 keeps the rows on
\* which all three are true
NBAAnalyzer_get_season_achievement_count(d, label, threshold, league, top_n) ==
    SortHead(SeasonAgg(PlayedOnly(_filter_by_game_type(d, "regular", league)), label,
                       threshold),
             TRUE, top_n)

\* CTE season_totals: SUM(COALESCE(label, 0)) per player and season, then
\* the count of seasons with total >= threshold, HAVING that count > 0
SqlSeasonAgg(rows, label, threshold) ==
    {row \in {[playerName |-> p,
               value |-> Cardinality({y \in SeasonsOf(rows, p) :
                                        SqlSum(SeasonRows(rows, p, y), label)
                                            >= threshold})] :
                 p \in PlayerNames(rows)} :
        row.value > 0}

\* NBAAnalyzerSQL.get_season_achievement_count: the frames it can return
NBAAnalyzerSQL_get_season_achievement_count(bs, gm, label, threshold, league, top_n) ==
    SortHead(SqlSeasonAgg(SqlFrom(bs, gm, "regular", league), label, threshold),
             TRUE, top_n)

\* analyzer.get_season_achievement_count(label, threshold, league, top_n)
get_season_achievement_count(be, d, bs, gm, label, threshold, league, top_n) ==
    IF be = "polars"
    THEN NBAAnalyzer_get_season_achievement_count(AnalyzerDf(d), label, threshold,
                                                  league, top_n)
    ELSE NBAAnalyzerSQL_get_season_achievement_count(bs, gm, label, threshold,
                                                     league, top_n)

\* the schedule: games 1 and 2 in season 2020, the later ones in season 2021,
\* all of the regular season but the given one
SeasonGames(playoff) ==
    [i \in 1..MaxGames |->
        GameRow(i, IF i <= 2 THEN {2020} ELSE {2021},
                IF i <= 2 THEN Date(2021, 1, i) ELSE Date(2022, 1, i),
                IF i = playoff THEN {0} ELSE {1}, {0}, {0}, "LAL")]

SeasonInit ==
    /\ HistoryIdle
    /\ backend \in {"polars", "sql"}
    /\ boxscore \in {a \o o : a \in RankingTables,
                             o \in {<<>>, <<BoxRow(1, "B", "BOS", Some("24:00"),
                                                   {15}, {0}, {0}, {0}, {0})>>}}
    /\ games \in {SeasonGames(playoff) : playoff \in {0, 2}}
    /\ player_info = <<>>
    /\ df = <<>>
    /\ stage = "raw"
    /\ answer = [op |-> "none"]
    /\ ParamIdle
    /\ DispatchIdle

SeasonThresholds == {10, 30}

GetSeasonAchievementCount ==
    /\ AnalyzerReady
    /\ answer.op = "none"
    /\ \E threshold \in SeasonThresholds : \E top_n \in QueryTopN :
          \E rows \in get_season_achievement_count(backend, df, boxscore, games,
                                                   "PTS", threshold, "NBA", top_n) :
             answer' = [op |-> "get_season_achievement_count", label |-> "PTS",
                        threshold |-> threshold, top_n |-> top_n, rows |-> rows]
    /\ UNCHANGED <<factVars, backend, history, paramVars, dispatchVars>>

SeasonNext ==
    \/ CreateAnalysisDf
    \/ AddAgeColumns
    \/ GetSeasonAchievementCount

SpecSeason == SeasonInit /\ [][SeasonNext]_vars

----------------------------------------------------------------------------
(* Properties of get_season_achievement_count                              *)

\* the seasons in which the PTS of a player's regular-season played rows sum
\* to the threshold or more
QualifyingSeasons(player, threshold) ==
    {y \in {PlayedGames(player, "regular")[i].seasonStartYear :
               i \in DOMAIN PlayedGames(player, "regular")} :
        LET keep(r) == r.seasonStartYear = y
        IN SumUpTo(SelectSeq(PlayedGames(player, "regular"), keep), "PTS", 99999999)
               >= threshold}

SeasonExpected(threshold) ==
    {[playerName |-> p, value |-> Cardinality(QualifyingSeasons(p, threshold))] :
        p \in {q \in QueryPlayers : QualifyingSeasons(q, threshold) # {}}}

\* C15: get_season_achievement_count gives each player the number of seasons
\* in which the label summed over the player's regular-season played rows is
\* at least the threshold, gives no row to a player with no such season, and
\* returns the rows sorted by that count descending, cut to top_n.
C15_SeasonCountExact ==
    answer.op = "get_season_achievement_count" =>
        RankedHead(answer.rows, SeasonExpected(answer.threshold), answer.top_n)

----------------------------------------------------------------------------
(* Query catalogue: get_filtered_achievement_count                         *)

\* the comparison an SQL operator stands for, on a nullable column value
Compare(sym, x, v) ==
    IF x = NULL THEN NULL
    ELSE CASE sym = "=" -> {Val(x) = v}
           [] sym = "!=" -> {Val(x) # v}
           [] sym = "<" -> {Val(x) < v}
           [] sym = "<=" -> {Val(x) <= v}
           [] sym = ">" -> {Val(x) > v}
           [] OTHER -> {Val(x) >= v}

\* op_map: the operator names and their SQL operators
op_map ==
    [o \in {"eq", "ne", "lt", "le", "gt", "ge"} |->
        CASE o = "eq" -> "=" [] o = "ne" -> "!=" [] o = "lt" -> "<"
          [] o = "le" -> "<=" [] o = "gt" -> ">" [] OTHER -> ">="]

\* if filter_column and filter_op and filter_value is not None
FilterGiven(filter_column, filter_op, filter_value) ==
    filter_column # NULL /\ filter_op # NULL /\ filter_value # NULL

FilterRows(data, col, sym, v) ==
    LET keep(r) == Compare(sym, r[col], v) = {TRUE}
    IN SelectSeq(data, keep)

\* the 0/1 column of count_column >= count_threshold summed per player, and
\* the players whose sum is above 0
CountAgg(data, count_column, count_threshold) ==
    {row \in {[playerName |-> p,
               value |-> Cardinality({i \in DOMAIN data :
                                        /\ data[i].playerName = p
                                        /\ KGe(data[i][count_column],
                                               count_threshold) = {TRUE}})] :
                 p \in PlayerNames(data)} :
        row.value > 0}

MethodRaise(e) == {[raised |-> e, rows |-> <<>>]}

MethodFrames(frames) == {[raised |-> NoExc, rows |-> f] : f \in frames}

\* the method after its filter: the empty frame of no rows, the check of
\* count_column, the count
PlCountFiltered(data, columns, count_column, count_threshold, top_n) ==
    IF data = <<>> THEN MethodFrames({<<>>})
    ELSE IF count_column \notin columns
    THEN MethodRaise(Exc("ValueError", "column does not exist"))
    ELSE MethodFrames(SortHead(CountAgg(data, count_column, count_threshold),
                               TRUE, top_n))

\* the method from "if filter_column and filter_op and ..." on; columns are
\* data.columns
PlFilteredCount(data, columns, count_column, count_threshold, filter_column, filter_op, filter_value, top_n) ==
    IF ~FilterGiven(filter_column, filter_op, filter_value)
    THEN PlCountFiltered(data, columns, count_column, count_threshold, top_n)
    ELSE IF Val(filter_column) \notin columns
    THEN MethodRaise(Exc("ValueError", "column does not exist"))
    ELSE IF Val(filter_op) \notin DOMAIN op_map
    THEN MethodRaise(Exc("ValueError", "invalid operator"))
    ELSE PlCountFiltered(FilterRows(data, Val(filter_column),
                                    op_map[Val(filter_op)], Val(filter_value)),
                         columns, count_column, count_threshold, top_n)

\* data.columns: the columns of the fact view
FactColumns ==
    DOMAIN BoxRow(0, "", "", NULL, NULL, NULL, NULL, NULL, NULL)
    \cup DOMAIN GameRow(0, NULL, NULL, NULL, NULL, NULL, "")
    \cup {"Played", "DD", "TD", "QD", "10PTS+", "40PTS+", "Win", "Lose", "season",
          "birth_date", "age_at_game"}

\* NBAAnalyzer.get_filtered_achievement_count: what it returns or raises
NBAAnalyzer_get_filtered_achievement_count(d, count_column, count_threshold, filter_column, filter_op, filter_value, game_type, league, top_n) ==
    PlFilteredCount(PlayedOnly(_filter_by_game_type(d, game_type, league)),
                    FactColumns, count_column, count_threshold, filter_column,
                    filter_op, filter_value, top_n)

\* the columns of table boxscore
BoxscoreColumns == DOMAIN BoxRow(0, "", "", NULL, NULL, NULL, NULL, NULL, NULL)

\* sql_op = op_map.get(filter_op, "=")
sql_op(filter_op) ==
    IF filter_op \in DOMAIN op_map THEN op_map[filter_op] ELSE "="

\* the query on the rows of the FROM ... WHERE without the filter clause
SqlFilteredCount(rows, count_column, count_threshold, filter_column, filter_op, filter_value, top_n) ==
    IF \/ count_column \notin BoxscoreColumns
       \/ /\ FilterGiven(filter_column, filter_op, filter_value)
          /\ Val(filter_column) \notin BoxscoreColumns
    THEN MethodRaise(Exc("DatabaseError", "column does not exist"))
    ELSE MethodFrames(
             SortHead(CountAgg(IF FilterGiven(filter_column, filter_op, filter_value)
                               THEN FilterRows(rows, Val(filter_column),
                                               sql_op(Val(filter_op)),
                                               Val(filter_value))
                               ELSE rows,
                               count_column, count_threshold),
                      TRUE, top_n))

\* NBAAnalyzerSQL.get_filtered_achievement_count: what it returns or raises
NBAAnalyzerSQL_get_filtered_achievement_count(bs, gm, count_column, count_threshold, filter_column, filter_op, filter_value, game_type, league, top_n) ==
    SqlFilteredCount(SqlFrom(bs, gm, game_type, league), count_column,
                     count_threshold, filter_column, filter_op, filter_value, top_n)

\* analyzer.get_filtered_achievement_count(count_column, count_threshold, ...)
get_filtered_achievement_count(be, d, bs, gm, count_column, count_threshold, filter_column, filter_op, filter_value, game_type, league, top_n) ==
    IF be = "polars"
    THEN NBAAnalyzer_get_filtered_achievement_count(
             AnalyzerDf(d), count_column, count_threshold, filter_column,
             filter_op, filter_value, game_type, league, top_n)
    ELSE NBAAnalyzerSQL_get_filtered_achievement_count(
             bs, gm, count_column, count_threshold, filter_column, filter_op,
             filter_value, game_type, league, top_n)

FilteredInit ==
    /\ HistoryIdle
    /\ backend \in {"polars", "sql"}
    /\ boxscore \in {a \o o : a \in RankingTables,
                             o \in {<<>>, <<BoxRow(1, "B", "BOS", Some("24:00"),
                                                   {15}, {0}, {0}, {0}, {0})>>}}
    /\ games = QueryGames(2)
    /\ player_info = <<>>
    /\ df = <<>>
    /\ stage = "raw"
    /\ answer = [op |-> "none"]
    /\ ParamIdle
    /\ DispatchIdle

\* requests: a column of table boxscore, a derived column of the fact view
\* and an unknown column, thresholds, a filter given wholly, in part or not
\* at all, a known and an unknown operator
FilteredColumns == {"PTS", "DD", "XYZ"}

FilteredThresholds == {0, 10}

FilteredOps == {NULL, {"ge"}, {"lt"}, {"zz"}}

GetFilteredAchievementCount ==
    /\ AnalyzerReady
    /\ answer.op = "none"
    /\ \E count_column \in FilteredColumns :
         \E count_threshold \in FilteredThresholds :
           \E filter_column \in {NULL} \cup {{c} : c \in FilteredColumns} :
             \E filter_op \in FilteredOps : \E filter_value \in {NULL, {20}} :
               \E top_n \in QueryTopN :
                 \E r \in get_filtered_achievement_count(
                              backend, df, boxscore, games, count_column,
                              count_threshold, filter_column, filter_op,
                              filter_value, "regular", "NBA", top_n) :
                    answer' = [op |-> "get_filtered_achievement_count",
                               count_column |-> count_column,
                               count_threshold |-> count_threshold,
                               filter_column |-> filter_column,
                               filter_op |-> filter_op,
                               filter_value |-> filter_value,
                               game_type |-> "regular", top_n |-> top_n,
                               raised |-> r.raised, rows |-> r.rows]
    /\ UNCHANGED <<factVars, backend, history, paramVars, dispatchVars>>

FilteredNext ==
    \/ CreateAnalysisDf
    \/ AddAgeColumns
    \/ GetFilteredAchievementCount

SpecFiltered == FilteredInit /\ [][FilteredNext]_vars

----------------------------------------------------------------------------
(* Properties of get_filtered_achievement_count                            *)

\* a request whose columns exist in the fact view and whose filter is given
\* wholly, with an operator of the six, or not at all
NoFilter == answer.filter_column = NULL /\ answer.filter_op = NULL
            /\ answer.filter_value = NULL

WholeFilter == answer.filter_column # NULL /\ answer.filter_op # NULL
               /\ answer.filter_value # NULL

ValidRequest ==
    /\ answer.count_column \in FactColumns
    /\ \/ NoFilter
       \/ /\ WholeFilter
          /\ Val(answer.filter_column) \in FactColumns
          /\ Val(answer.filter_op) \in {"eq", "ne", "lt", "le", "gt", "ge"}

\* the value of a column of the fact view on a played row; DD is 1 when
\* exactly two of the five indicators are true
ColumnValue(r, col) ==
    IF col = "DD" THEN (IF Cardinality(TrueIndicators(r)) = 2 THEN {1} ELSE {0})
    ELSE r[col]

\* the comparison of the request on a row
FilterHolds(r) ==
    NoFilter \/
    /\ ColumnValue(r, Val(answer.filter_column)) # NULL
    /\ LET x == Val(ColumnValue(r, Val(answer.filter_column)))
           v == Val(answer.filter_value)
           o == Val(answer.filter_op)
       IN CASE o = "eq" -> x = v [] o = "ne" -> x # v [] o = "lt" -> x < v
            [] o = "le" -> x <= v [] o = "gt" -> x > v [] OTHER -> x >= v

\* the played games of a player that pass the filter and reach the threshold
CountedGames(player) ==
    {i \in DOMAIN PlayedGames(player, answer.game_type) :
        LET r == PlayedGames(player, answer.game_type)[i]
        IN /\ FilterHolds(r)
           /\ ColumnValue(r, answer.count_column) # NULL
           /\ Val(ColumnValue(r, answer.count_column)) >= answer.count_threshold}

CountExpected ==
    {[playerName |-> p, value |-> Cardinality(CountedGames(p))] :
        p \in {q \in QueryPlayers : CountedGames(q) # {}}}

\* C16: on a valid request get_filtered_achievement_count keeps the played
\* rows that satisfy the filter, gives each player the number of those games
\* with count_column >= count_threshold, gives no row to a player with none,
\* and returns the rows sorted by that count descending, cut to top_n.
C16_FilterThenCount ==
    (answer.op = "get_filtered_achievement_count" /\ ValidRequest) =>
        /\ answer.raised = NoExc
        /\ RankedHead(answer.rows, CountExpected, answer.top_n)

\* C17: a request with an operator outside the six, with only part of the
\* filter triple, or with a column that the fact view does not have, ends in
\* an exception raised to the executor, never in a frame.
C17_InvalidRequestRaises ==
    (answer.op = "get_filtered_achievement_count" /\ ~ValidRequest) =>
        answer.raised # NoExc

----------------------------------------------------------------------------
(* Streaks and cumulative totals of one player's career                    *)

\* the points of the five games of the streak example
StreakExample == <<42, 38, 40, 19, 41>>

\* a run of three scoring games
ScoringRun == <<25, 30, 12>>

\* per-game points whose running totals are 5, 8, 12, 20
ReachExample == <<5, 3, 4, 8>>

\* per-game points 5, 8, 12, 20, with running totals 5, 13, 25, 45
ReachPerGame == <<5, 8, 12, 20>>

\* the careers: the examples, and every career of up to MaxGames games with
\* 0, 1, 25 or 40 points a game
CareerPoints ==
    {StreakExample, ScoringRun, ReachExample, ReachPerGame}
    \cup UNION {[1..n -> {0, 1, 25, 40}] : n \in 1..MaxGames}

\* player A played every game of the career
CareerTable(points) ==
    [i \in DOMAIN points |->
        BoxRow(i, "A", "LAL", Some("24:00"), {points[i]}, {0}, {0}, {0}, {0})]

\* a regular-season schedule long enough for every career
CareerGames ==
    [i \in 1..(Len(StreakExample) + MaxGames) |->
        GameRow(i, {2020}, Date(2021, 1, i), {1}, {0}, {0}, "LAL")]

CareerInit ==
    /\ HistoryIdle
    /\ backend \in {"polars", "sql"}
    /\ boxscore \in {CareerTable(points) : points \in CareerPoints}
    /\ games = CareerGames
    /\ player_info = <<>>
    /\ df = <<>>
    /\ stage = "raw"
    /\ answer = [op |-> "none"]
    /\ ParamIdle
    /\ DispatchIdle

\* the labels of a streak request: a raw statistic and a 0/1 flag
CareerLabels == {"PTS", "40PTS+"}

CareerConsecutiveGames ==
    /\ AnalyzerReady
    /\ answer.op = "none"
    /\ \E label \in CareerLabels :
         \E rows \in get_consecutive_games(backend, df, boxscore, games, label,
                                           "regular", "NBA", 10) :
            answer' = [op |-> "get_consecutive_games", label |-> label,
                       threshold |-> 0, game_type |-> "regular", top_n |-> 10,
                       rows |-> rows]
    /\ UNCHANGED <<factVars, backend, history, paramVars, dispatchVars>>

CareerGamesToReach ==
    /\ AnalyzerReady
    /\ answer.op = "none"
    /\ \E rows \in get_games_to_reach(backend, df, boxscore, games, "PTS", 15,
                                      "regular", "NBA", 10) :
          answer' = [op |-> "get_games_to_reach", label |-> "PTS",
                     threshold |-> 15, game_type |-> "regular", top_n |-> 10,
                     rows |-> rows]
    /\ UNCHANGED <<factVars, backend, history, paramVars, dispatchVars>>

CareerNext ==
    \/ CreateAnalysisDf
    \/ AddAgeColumns
    \/ CareerConsecutiveGames
    \/ CareerGamesToReach

SpecCareer == CareerInit /\ [][CareerNext]_vars

----------------------------------------------------------------------------
(* Properties of streaks and cumulative totals                             *)

\* the points of player A's games, in date order
PointsOfA == [i \in DOMAIN boxscore |-> Val(boxscore[i].PTS)]

\* the length of the longest run of games that satisfy Achieved
LongestRunOf(points, Achieved(_)) ==
    SetMax({0} \cup {n \in 1..Len(points) :
                        \E i \in DOMAIN points :
                            /\ i + n - 1 <= Len(points)
                            /\ \A k \in i..(i + n - 1) : Achieved(points[k])})

AtLeastOne(x) == x >= 1

AtLeastForty(x) == x >= 40

\* C18: get_consecutive_games with the raw statistic PTS as label counts a
\* game as achieved exactly when its value is at least 1: the player's value
\* is the longest run of games with PTS >= 1 (3 for 25, 30, 12).
C18_RawLabelAchievedFromOne ==
    (answer.op = "get_consecutive_games" /\ answer.label = "PTS") =>
        /\ \A i \in DOMAIN answer.rows :
              answer.rows[i] = [playerName |-> "A",
                                value |-> LongestRunOf(PointsOfA, AtLeastOne)]
        /\ LongestRunOf(PointsOfA, AtLeastOne) >= 1 => Len(answer.rows) = 1

StreakAnswered ==
    /\ PointsOfA = StreakExample
    /\ answer.op = "get_consecutive_games"
    /\ answer.label = "40PTS+"

\* C19 as stated: the points 42, 38, 40, 19, 41 give a maximum 40PTS+ streak
\* of 2.
C19_ExampleStreakIsTwo ==
    StreakAnswered => answer.rows = <<[playerName |-> "A", value |-> 2]>>

\* C19 amended: the 40PTS+ flags of 42, 38, 40, 19, 41 are 1, 0, 1, 0, 1 and
\* get_consecutive_games returns a maximum streak of 1.
C19_ExampleStreakIsOne ==
    StreakAnswered =>
        /\ answer.rows = <<[playerName |-> "A", value |-> 1]>>
        /\ LongestRunOf(StreakExample, AtLeastForty) = 1

C19_Witness ==
    /\ StreakAnswered
    /\ answer.rows = <<[playerName |-> "A", value |-> 1]>>

\* the running totals of a career
RunningTotals(points) == [i \in DOMAIN points |-> PlSum([k \in 1..i |-> {points[k]}])]

ReachAnswered ==
    /\ RunningTotals(PointsOfA) = <<5, 8, 12, 20>>
    /\ answer.op = "get_games_to_reach"
    /\ answer.threshold = 15

\* C20 as stated: running totals 5, 8, 12, 20 and threshold 15 give game
\* index 3.
C20_ExampleIndexIsThree ==
    ReachAnswered => answer.rows = <<[playerName |-> "A", value |-> 3]>>

\* C20 amended: with running totals 5, 8, 12, 20 the threshold 15 is first
\* reached in game 4, and get_games_to_reach returns 4; it returns 3 when
\* 5, 8, 12, 20 are the per-game values (running totals 5, 13, 25, 45).
C20_ExampleIndexIsFour ==
    /\ ReachAnswered => answer.rows = <<[playerName |-> "A", value |-> 4]>>
    /\ (/\ PointsOfA = ReachPerGame
        /\ answer.op = "get_games_to_reach"
        /\ answer.threshold = 15)
           => answer.rows = <<[playerName |-> "A", value |-> 3]>>

C20_Witness ==
    /\ ReachAnswered
    /\ answer.rows = <<[playerName |-> "A", value |-> 4]>>

----------------------------------------------------------------------------
(* Query catalogue: get_player_starter_comparison (SQL backend only)       *)

\* CREATE TABLE boxscore: the types of the columns the query aggregates
BoxscoreColumnType ==
    [c \in {"MP", "PTS", "TRB", "AST"} |-> IF c = "MP" THEN "VARCHAR" ELSE "FLOAT"]

\* AVG is defined on numeric arguments only
AvgTypeChecks(cols) == \A c \in cols : BoxscoreColumnType[c] # "VARCHAR"

\* the player names of the model and the patterns each of them contains
NameParts ==
    [n \in {"Ann Lee", "Bob Lee", "Eddie Johnson"} |->
        CASE n = "Ann Lee" -> {"Ann", "Lee", "Ann Lee"}
          [] n = "Bob Lee" -> {"Bob", "Lee", "Bob Lee"}
          [] OTHER -> {"Eddie", "Johnson", "Eddie Johnson"}]

\* b."playerName" LIKE '%{player_name}%'
Like(name, pattern) == name \in DOMAIN NameParts /\ pattern \in NameParts[name]

\* FROM boxscore b JOIN games g ... WHERE {game_type_clause}
\*   AND b."playerName" LIKE '%{player_name}%' AND b."PTS" IS NOT NULL
SqlStarterFrom(bs, gm, player_name, game_type, league) ==
    LET keep(r) ==
            /\ _get_game_type_clause(r, game_type, league) = {TRUE}
            /\ Like(r.playerName, player_name)
            /\ r.PTS # NULL
    IN SelectSeq(JoinGames(bs, gm), keep)

\* GROUP BY b."playerName", b."isStarter": one row per group, with
\* CASE WHEN isStarter = 1 THEN 'Starter' ELSE 'Bench' END and COUNT(*)
SqlStarterGroups(rows) ==
    {[playerName |-> g[1], isStarter |-> g[2],
      Role |-> IF g[2] = {1} THEN "Starter" ELSE "Bench",
      Games |-> Cardinality({i \in DOMAIN rows :
                               <<rows[i].playerName, rows[i].isStarter>> = g})] :
        g \in {<<rows[i].playerName, rows[i].isStarter>> : i \in DOMAIN rows}}

\* ORDER BY b."isStarter" DESC: NULL sorts last, equal keys in any order
SqlStarterOrder(groups) ==
    {o \in Orderings(groups) :
        \A i \in 1..(Len(o) - 1) :
            COALESCE(o[i].isStarter, -1) >= COALESCE(o[i + 1].isStarter, -1)}

\* NBAAnalyzerSQL.get_player_starter_comparison: what it returns or raises;
\* the statement is type-checked before any row is read
NBAAnalyzerSQL_get_player_starter_comparison(bs, gm, player_name, game_type, league) ==
    IF ~AvgTypeChecks({"PTS", "TRB", "AST", "MP"})
    THEN MethodRaise(Exc("DatabaseError", "unknown signature: avg(varchar)"))
    ELSE MethodFrames(SqlStarterOrder(SqlStarterGroups(
             SqlStarterFrom(bs, gm, player_name, game_type, league))))

\* the lines of a player: as a starter, from the bench, role not recorded
StarterValues == {{1}, {0}, NULL}

StarterRow(gid, player, starter) ==
    [isStarter |-> starter]
    @@ BoxRow(gid, player, "LAL", Some("24:00"), {10}, {0}, {0}, {0}, {0})

StarterTables ==
    UNION {{[i \in 1..n |-> StarterRow(i, "Ann Lee", line[i])] :
                line \in [1..n -> StarterValues]} : n \in 1..MaxGames}

StarterInit ==
    /\ HistoryIdle
    /\ backend = "sql"
    /\ boxscore \in {a \o o : a \in StarterTables,
                             o \in {<<>>, <<StarterRow(1, "Bob Lee", {1})>>}}
    /\ games \in {QueryGames(playoff) : playoff \in {0, 2}}
    /\ player_info = <<>>
    /\ df = <<>>
    /\ stage = "raw"
    /\ answer = [op |-> "none"]
    /\ ParamIdle
    /\ DispatchIdle

StarterPatterns == {"Ann", "Lee", "Zed"}

GetPlayerStarterComparison ==
    /\ backend = "sql"
    /\ answer.op = "none"
    /\ \E player_name \in StarterPatterns : \E game_type \in {"regular", "all"} :
          \E r \in NBAAnalyzerSQL_get_player_starter_comparison(
                       boxscore, games, player_name, game_type, "NBA") :
             answer' = [op |-> "get_player_starter_comparison",
                        player_name |-> player_name, game_type |-> game_type,
                        raised |-> r.raised, rows |-> r.rows]
    /\ UNCHANGED <<factVars, backend, history, paramVars, dispatchVars>>

StarterNext == GetPlayerStarterComparison

SpecStarter == StarterInit /\ [][StarterNext]_vars

\* C21: get_player_starter_comparison returns a frame of at most two rows,
\* at most one with Role = Starter and at most one with Role = Bench.
C21_AtMostOneRowPerRole ==
    answer.op = "get_player_starter_comparison" =>
        /\ answer.raised = NoExc
        /\ Len(answer.rows) <= 2
        /\ \A i \in DOMAIN answer.rows : \A j \in DOMAIN answer.rows :
              answer.rows[i].Role = answer.rows[j].Role => i = j

\* ---------------------------------------------------------------------------
\* The game-type filter of the two back ends
\* ---------------------------------------------------------------------------

\* the rows the Polars analyzer keeps: self.df filtered by the helper
PlGameTypeRows(d, game_type, league) ==
    _filter_by_game_type(AnalyzerDf(d), game_type, league)

\* the rows the WHERE clause keeps of boxscore JOIN games
SqlGameTypeRows(bs, gm, game_type, league) ==
    LET keep(r) == _get_game_type_clause(r, game_type, league) = {TRUE}
    IN SelectSeq(JoinGames(bs, gm), keep)

GameIds(rows) == {rows[i].game_id : i \in DOMAIN rows}

\* the flags of one game: regular or not, final or not, play-in 0 / 1 / null
GameTypeFlags == {{0}, {1}} \X {{0}, {1}} \X {{0}, {1}, NULL}

GameTypeLeagues == {"NBA", "ABA"}

GameTypeGame(i, f, lg) ==
    [GameRow(i, {2020}, Date(2021, 1, i), f[1], f[2], f[3], "LAL")
        EXCEPT !.League = Some(lg)]

\* a games file without the isPlayin column
WithoutPlayin(gm) ==
    [i \in DOMAIN gm |-> [c \in (DOMAIN gm[i]) \ {"isPlayin"} |-> gm[i][c]]]

GameTypeSchedules ==
    {<<GameTypeGame(1, f1, "NBA"), GameTypeGame(2, f2, lg)>> :
        f1 \in GameTypeFlags, f2 \in GameTypeFlags, lg \in GameTypeLeagues}

\* the database table always has the isPlayin column; a games file may lack it
GameTypeInit ==
    /\ HistoryIdle
    /\ backend \in {"polars", "sql"}
    /\ boxscore = <<LineRow(1, "A", [MP |-> Some("24:00"), PTS |-> {10}, rest |-> {0}]),
                    LineRow(2, "A", [MP |-> Some("24:00"), PTS |-> {10}, rest |-> {0}])>>
    /\ games \in GameTypeSchedules \cup
                 (IF backend = "polars"
                  THEN {WithoutPlayin(gm) : gm \in GameTypeSchedules} ELSE {})
    /\ player_info = <<>>
    /\ df = <<>>
    /\ stage = "raw"
    /\ answer = [op |-> "none"]
    /\ ParamIdle
    /\ DispatchIdle

FilterGameTypes == {"regular", "playoff", "final", "all"}

FilterByGameType ==
    /\ AnalyzerReady
    /\ answer.op = "none"
    /\ \E game_type \in FilterGameTypes : \E league \in GameTypeLeagues :
          answer' = [op |-> "_filter_by_game_type", game_type |-> game_type,
                     league |-> league,
                     kept |-> IF backend = "polars"
                              THEN GameIds(PlGameTypeRows(df, game_type, league))
                              ELSE GameIds(SqlGameTypeRows(boxscore, games,
                                                           game_type, league))]
    /\ UNCHANGED <<factVars, backend, history, paramVars, dispatchVars>>

GameTypeNext ==
    \/ CreateAnalysisDf
    \/ AddAgeColumns
    \/ FilterByGameType

SpecGameType == GameTypeInit /\ [][GameTypeNext]_vars

\* the game-type rule: the league matches, and regular means isRegular = 1,
\* playoff means isRegular = 0 with isPlayin 0 or missing (no column, or null),
\* final means isFinal = 1, all adds nothing
GameTypeRule(g, game_type, league) ==
    /\ g.League = {league}
    /\ CASE game_type = "regular" -> g.isRegular = {1}
         [] game_type = "playoff" ->
                /\ g.isRegular = {0}
                /\ ("isPlayin" \in DOMAIN g => g.isPlayin \in {{0}, NULL})
         [] game_type = "final" -> g.isFinal = {1}
         [] OTHER -> TRUE

\* C23: under either back end the game-type filter keeps exactly the rows of
\* the requested league whose game satisfies the rule of the game type, a
\* missing isPlayin (absent column or null value) counting as 0 for playoff
C23_GameTypeFilterRule ==
    answer.op = "_filter_by_game_type" =>
        answer.kept = {games[i].game_id : i \in
                          {j \in DOMAIN games :
                              GameTypeRule(games[j], answer.game_type, answer.league)}}

\* ---------------------------------------------------------------------------
\* get_player_career_high, and the exclusion list in every operation
\* ---------------------------------------------------------------------------

\* the games row of a joined row (game_id is the key of games)
GameOf(gm, gid) == gm[CHOOSE i \in DOMAIN gm : gm[i].game_id = gid]

\* CASE WHEN b."teamName" = g."homeTeam" THEN 'vs ' || g."awayTeam"
\*      ELSE '@ ' || g."homeTeam" END
Opponent(r, g) ==
    IF KEq(r.teamName, Val(g.homeTeam)) = {TRUE}
    THEN <<"vs", Val(g.awayTeam)>> ELSE <<"@", Val(g.homeTeam)>>

\* FROM boxscore b JOIN games g ... WHERE {game_type_clause}
\*   AND b."playerName" LIKE '%{player_name}%' AND b."PTS" IS NOT NULL
SqlCareerHighFrom(bs, gm, player_name, game_type, league) ==
    LET keep(r) ==
            /\ _get_game_type_clause(r, game_type, league) = {TRUE}
            /\ Like(r.playerName, player_name)
            /\ r.PTS # NULL
    IN SelectSeq(JoinGames(bs, gm), keep)

\* the SELECT list of get_player_career_high
SqlCareerHighRow(r, g, label) ==
    [playerName |-> <<Val(r.datetime), Opponent(r, g)>>,
     Date |-> Val(r.datetime),
     Season |-> <<Val(r.seasonStartYear), Val(r.seasonStartYear) + 1>>,
     Opponent |-> Opponent(r, g),
     value |-> r[label], PTS |-> r.PTS, TRB |-> r.TRB, AST |-> r.AST]

\* ORDER BY b."{label}" DESC LIMIT {top_n}: NULL sorts last, ties in any order
SqlCareerHighFrames(rows, gm, label, top_n) ==
    {[i \in 1..Smaller(top_n, Len(rows)) |->
         SqlCareerHighRow(rows[o[i]], GameOf(gm, rows[o[i]].game_id), label)] :
        o \in {p \in Orderings(DOMAIN rows) :
                 \A i \in 1..(Len(p) - 1) :
                    COALESCE(rows[p[i]][label], -1) >=
                        COALESCE(rows[p[i + 1]][label], -1)}}

NBAAnalyzerSQL_get_player_career_high(bs, gm, player_name, label, game_type, league, top_n) ==
    SqlCareerHighFrames(SqlCareerHighFrom(bs, gm, player_name, game_type, league),
                        gm, label, top_n)

\* the schedule with the home and the away team of every game
CareerHighGames(playoff) ==
    [i \in 1..MaxGames |->
        [homeTeam |-> Some("LAL"), awayTeam |-> Some("BOS")]
        @@ QueryGames(playoff)[i]]

CareerHighPoints == {{10}, {20}, NULL}

\* the rows of Ann Lee over the first n games, and a row of a listed
\* duplicate-name player
CareerHighTables ==
    UNION {{[i \in 1..n |-> BoxRow(i, "Ann Lee", "LAL", Some("24:00"), pts[i],
                                   {0}, {0}, {0}, {0})] :
                pts \in [1..n -> CareerHighPoints]} : n \in 1..MaxGames}

ExcludedTables ==
    {<<>>} \cup
    {<<BoxRow(i, "Eddie Johnson", "BOS", Some("24:00"), {pts}, {0}, {0}, {0}, {0})>> :
        i \in 1..2, pts \in {10, 30}}

CareerHighInit ==
    /\ HistoryIdle
    /\ backend \in {"polars", "sql"}
    /\ boxscore \in {a \o o : a \in CareerHighTables, o \in ExcludedTables}
    /\ games \in {CareerHighGames(playoff) : playoff \in {0, 2}}
    /\ player_info = <<>>
    /\ df = <<>>
    /\ stage = "raw"
    /\ answer = [op |-> "none"]
    /\ ParamIdle
    /\ DispatchIdle

CareerHighPatterns == {"Ann", "Lee", "Johnson"}

\* the operation exists in the SQL catalogue only
GetPlayerCareerHigh ==
    /\ backend = "sql"
    /\ answer.op = "none"
    /\ \E player_name \in CareerHighPatterns : \E game_type \in {"regular", "all"} :
          \E top_n \in QueryTopN :
             \E rows \in NBAAnalyzerSQL_get_player_career_high(
                             boxscore, games, player_name, "PTS", game_type,
                             "NBA", top_n) :
                answer' = [op |-> "get_player_career_high",
                           player_name |-> player_name, label |-> "PTS",
                           game_type |-> game_type, top_n |-> top_n,
                           rows |-> rows]
    /\ UNCHANGED <<factVars, backend, history, paramVars, dispatchVars>>

CareerHighNext ==
    \/ CreateAnalysisDf
    \/ AddAgeColumns
    \/ GetConsecutiveGames
    \/ GetPlayerCareerHigh

SpecCareerHigh == CareerHighInit /\ [][CareerHighNext]_vars

\* a table without the rows of the players of the exclusion list
Permitted(rows) ==
    LET keep(r) == r.playerName \notin DUPLICATE_NAME_PLAYERS
    IN SelectSeq(rows, keep)

\* C24: no row of a player of the duplicate-name exclusion list contributes to
\* the result of an operation: the result is one the operation gives on the
\* tables without the rows of those players
C24_ExcludedRowsNeverContribute ==
    /\ answer.op = "get_consecutive_games" =>
          answer.rows \in get_consecutive_games(backend, Permitted(df),
                              Permitted(boxscore), games, answer.label,
                              answer.game_type, "NBA", answer.top_n)
    /\ answer.op = "get_player_career_high" =>
          answer.rows \in NBAAnalyzerSQL_get_player_career_high(
                              Permitted(boxscore), games, answer.player_name,
                              answer.label, answer.game_type, "NBA", answer.top_n)

\* ---------------------------------------------------------------------------
\* The join of create_analysis_df
\* ---------------------------------------------------------------------------

\* the rows of a table for a game and a player
RowsOfKey(rows, gid, player) ==
    {i \in DOMAIN rows : rows[i].game_id = gid /\ rows[i].playerName = player}

HasGame(gid) == \E j \in DOMAIN games : games[j].game_id = gid

\* the per-game columns that the join copies unchanged
MetadataCols == {"seasonStartYear", "League", "isRegular", "isFinal", "isPlayin", "Winner"}

\* C25 (as stated): every boxscore row appears in the fact view, with null
\* metadata columns when its game_id has no match in games
C25_LeftJoin ==
    stage # "raw" =>
        \A i \in DOMAIN boxscore :
            LET b == boxscore[i]
            IN /\ Cardinality(RowsOfKey(df, b.game_id, b.playerName))
                      = Cardinality(RowsOfKey(boxscore, b.game_id, b.playerName))
               /\ ~HasGame(b.game_id) =>
                      \A j \in RowsOfKey(df, b.game_id, b.playerName) :
                          \A c \in MetadataCols : df[j][c] = NULL

\* C25 (amended): the join is an inner join on game_id: a boxscore row whose
\* game_id has a match in games appears in the fact view once, a row without
\* a match does not appear, and every row of the fact view carries the
\* metadata of its game
C25_InnerJoin ==
    stage # "raw" =>
        /\ \A i \in DOMAIN boxscore :
              LET b == boxscore[i]
              IN Cardinality(RowsOfKey(df, b.game_id, b.playerName))
                     = IF HasGame(b.game_id)
                       THEN Cardinality(RowsOfKey(boxscore, b.game_id, b.playerName))
                       ELSE 0
        /\ \A j \in DOMAIN df :
              /\ RowsOfKey(boxscore, df[j].game_id, df[j].playerName) # {}
              /\ \E g \in DOMAIN games :
                    /\ games[g].game_id = df[j].game_id
                    /\ \A c \in MetadataCols : df[j][c] = games[g][c]

\* the fact view of a boxscore with a row of a game that is not in games and
\* a row of one that is
C25_Witness ==
    /\ stage # "raw"
    /\ \E i \in DOMAIN boxscore : ~HasGame(boxscore[i].game_id)
    /\ \E i \in DOMAIN boxscore : HasGame(boxscore[i].game_id)
    /\ Len(df) < Len(boxscore)

\* ---------------------------------------------------------------------------
\* The query history (src/app/query_history.py)
\* ---------------------------------------------------------------------------

\* the largest number of entries kept
MAX_HISTORY == 100

\* history[-MAX_HISTORY:]
LastEntries(h, n) == IF Len(h) > n THEN SubSeq(h, Len(h) - n + 1, Len(h)) ELSE h

\* save_query without the limit on the number of entries
save_queryMut(h, query, description, function, now) ==
    IF query \in {h[i].query : i \in DOMAIN h} THEN h
    ELSE Append(h, [query |-> query, description |-> description,
                    function |-> function, timestamp |-> now])

\* save_query: the content of the file after the call
save_query(h, query, description, function, now) ==
    IF query \in {h[i].query : i \in DOMAIN h} THEN h
    ELSE LastEntries(Append(h, [query |-> query, description |-> description,
                                function |-> function, timestamp |-> now]),
                     MAX_HISTORY)

\* the number of entries ever written
MaxSaves == 102

\* datetime.now(): the entries are written one after the other
Now(h) == IF h = <<>> THEN 1 ELSE h[Len(h)].timestamp + 1

\* the requests: a question never asked before (numbered by the time it is
\* asked), and the first and the last stored question asked again with
\* another description
HistoryRequests(h) ==
    {[query |-> Now(h), description |-> "first answer"]}
    \cup {[query |-> q, description |-> "other answer"] :
             q \in {1} \cup {h[i].query : i \in {j \in DOMAIN h : j = Len(h)}}}

HistoryInit ==
    /\ HistoryIdle
    /\ backend = "sql"
    /\ FactIdle
    /\ ParamIdle
    /\ DispatchIdle
    /\ QueryIdle

SaveQuery ==
    /\ Now(history) <= MaxSaves
    /\ \E request \in HistoryRequests(history) :
          history' = save_query(history, request.query, request.description,
                                Some("get_ranking_by_age"), Now(history))
    /\ UNCHANGED <<factVars, backend, paramVars, dispatchVars, answer>>

HistoryNext == SaveQuery

SpecHistory == HistoryInit /\ [][HistoryNext]_vars

HistoryKeyed ==
    \A i \in DOMAIN history : \A j \in DOMAIN history :
        history[i].query = history[j].query => i = j

EntriesKept ==
    \A i \in DOMAIN history : \E j \in DOMAIN history' : history'[j] = history[i]

\* C26 (as stated): the history holds at most one entry per query text, and
\* no save_query removes or alters an entry that is stored
C26_AppendOnly == []HistoryKeyed /\ [][EntriesKept]_vars

\* a stored entry leaves the history only as its oldest entry, when the
\* history is full and a new question is appended; the others keep their
\* content and their order
EntriesKeptOrAgedOut ==
    \/ history' = history
    \/ \E e \in {history'[i] : i \in {j \in DOMAIN history' : j = Len(history')}} :
          /\ e.query \notin {history[i].query : i \in DOMAIN history}
          /\ history' = IF Len(history) < MAX_HISTORY THEN Append(history, e)
                        ELSE Append(Tail(history), e)

\* C26 (amended): the history holds at most one entry per query text and at
\* most MAX_HISTORY entries; save_query never alters a stored entry, and
\* removes one only when appending a new question to a full history, the
\* oldest entry being the one removed
C26_BoundedLog ==
    /\ [](HistoryKeyed /\ Len(history) <= MAX_HISTORY)
    /\ [][EntriesKeptOrAgedOut]_vars

\* a full history that has lost its first question
C26_Witness ==
    /\ Len(history) = MAX_HISTORY
    /\ \A i \in DOMAIN history : history[i].query # 1

\* ---------------------------------------------------------------------------
\* The DD / TD indicator of the SQL back end and the flags of the fact view
\* ---------------------------------------------------------------------------

\* C27: for every joined row of boxscore and games, the DD and TD indicators
\* that the SQL back end evaluates on it equal the DD and TD flags of the row
\* of the fact view for the same game and player, whatever the five
\* statistics are
C27_SqlIndicatorIsFactFlag ==
    stage # "raw" =>
        \A i \in DOMAIN JoinGames(boxscore, games) : \A j \in DOMAIN df :
            LET r == JoinGames(boxscore, games)[i]
            IN (r.game_id = df[j].game_id /\ r.playerName = df[j].playerName) =>
                  /\ df[j].DD = {_get_stat_expression(r, "DD")}
                  /\ df[j].TD = {_get_stat_expression(r, "TD")}

\* ---------------------------------------------------------------------------
\* The cleaned parameter map against the signature of the method
\* ---------------------------------------------------------------------------

\* the keyword names the analyzer method of an operation accepts
Accepted(be, f) == Signature(be, f).required \cup Signature(be, f).optional

\* C28: the map that _clean_params returns for an operation holds only
\* keyword names that the analyzer method of the operation accepts, so that
\* method(**params) does not fail on an injected or passed-through name
C28_CleanedKeysAccepted ==
    clean_out.exc = "none" =>
        DOMAIN clean_out.cleaned \subseteq Accepted(backend, func_name)

\* ---------------------------------------------------------------------------
\* The age of the SQL back end against age_at_game
\* ---------------------------------------------------------------------------

\* days of the year around the end of February, and others
AgeDays(y) ==
    {Date(y, 1, 1), Date(y, 2, 28), Date(y, 3, 1), Date(y, 6, 15), Date(y, 12, 31)}
    \cup (IF IsLeapYear(y) THEN {Date(y, 2, 29)} ELSE {})

AgeInit ==
    /\ HistoryIdle
    /\ backend \in {"polars", "sql"}
    /\ boxscore = <<BoxRow(1, "A", "LAL", Some("24:00"), {10}, {0}, {0}, {0}, {0})>>
    /\ games \in {<<GameRow(1, {2024}, dt, {1}, {0}, {0}, "LAL")>> :
                     dt \in AgeDays(2024) \cup AgeDays(2025)}
    /\ player_info \in {<<[name |-> "A", birth_date |-> bd]>> :
                           bd \in AgeDays(2000) \cup AgeDays(2001)}
    /\ df = <<>>
    /\ stage = "raw"
    /\ answer = [op |-> "none"]
    /\ ParamIdle
    /\ DispatchIdle

\* the age a back end gives the row of player A: the age_at_game column of the
\* fact view, or age_expr on the joined tables
EvaluateAge ==
    /\ AnalyzerReady
    /\ answer.op = "none"
    /\ answer' = [op |-> "age",
                  age |-> IF backend = "polars" THEN df[1].age_at_game
                          ELSE age_expr(games[1].datetime, player_info[1].birth_date)]
    /\ UNCHANGED <<factVars, backend, history, paramVars, dispatchVars>>

AgeNext ==
    \/ CreateAnalysisDf
    \/ AddAgeColumns
    \/ EvaluateAge

SpecAge == AgeInit /\ [][AgeNext]_vars

\* C29: for every birth date and game date the age of the SQL back end equals
\* age_at_game, the year difference less 1 when the month and day of the game
\* precede those of the birth date
C29_SqlAgeIsAgeAtGame ==
    (answer.op = "age" /\ backend = "sql") =>
        answer.age = age_at_game(games[1].datetime, player_info[1].birth_date)

\* ---------------------------------------------------------------------------
\* The image enrichment of a result (merge_player_image)
\* ---------------------------------------------------------------------------

\* the rows of the image lookup for a player, in the order of the lookup
ImagesOf(images, player) ==
    LET hit(im) == im.playerName = player
    IN SelectSeq(images, hit)

\* df.merge(images, on="playerName", how="left"): the rows of df in their
\* order, each once per matching row of images, or once with a null image
RECURSIVE MergeLeft(_, _)
MergeLeft(rows, images) ==
    IF rows = <<>> THEN <<>>
    ELSE LET r == Head(rows)
             m == ImagesOf(images, r.playerName)
             out == IF m = <<>> THEN <<[player_image |-> NULL] @@ r>>
                    ELSE [j \in 1..Len(m) |->
                             [player_image |-> Some(m[j].image_url)] @@ r]
         IN out \o MergeLeft(Tail(rows), images)

\* what reading the image lookup gives: its rows, or an exception
ImagesRows(rows) == [raised |-> NoExc, rows |-> rows]

ImagesMissing(e) == [raised |-> e, rows |-> <<>>]

\* src.utils.merge_player_image: pd.read_csv(image_csv), then the merge
utils_merge_player_image(rows, source) ==
    IF source.raised # NoExc THEN [raised |-> source.raised, rows |-> <<>>]
    ELSE [raised |-> NoExc, rows |-> MergeLeft(rows, source.rows)]

\* executor_sql.get_player_images: the table, or an empty frame on any exception
get_player_images(source) == IF source.raised # NoExc THEN <<>> ELSE source.rows

\* executor_sql.merge_player_image: df itself when there are no images
executor_sql_merge_player_image(rows, source) ==
    IF get_player_images(source) = <<>> THEN [raised |-> NoExc, rows |-> rows]
    ELSE [raised |-> NoExc, rows |-> MergeLeft(rows, get_player_images(source))]

\* the catalogue results: one or two rows with a playerName column
ImagePlayers == {"A", "B"}

ResultRows == {[playerName |-> p, value |-> v] : p \in ImagePlayers, v \in {10, 20}}

CatalogueResults == {<<r>> : r \in ResultRows} \cup (ResultRows \X ResultRows)

\* the image lookups: no row, one row, two rows (the playerName column has no
\* uniqueness constraint), or a source that cannot be read
ImageRows == {[playerName |-> p, image_url |-> u] : p \in ImagePlayers, u \in {"u1", "u2"}}

ImageSources(be) ==
    {ImagesRows(t) : t \in {<<>>} \cup {<<i>> : i \in ImageRows} \cup (ImageRows \X ImageRows)}
    \cup {ImagesMissing(IF be = "polars"
                        THEN Exc("FileNotFoundError", "player_imageURL.csv")
                        ELSE Exc("OperationalError", "connection refused"))}

ImagesInit ==
    /\ HistoryIdle
    /\ backend \in {"polars", "sql"}
    /\ FactIdle
    /\ ParamIdle
    /\ DispatchIdle
    /\ QueryIdle

\* execute_analysis from the non-empty result of the method on: the merge
\* inside the try block, then return result, description, or the except clause
MergePlayerImage ==
    /\ answer.op = "none"
    /\ \E result \in CatalogueResults : \E source \in ImageSources(backend) :
          \E m \in {IF backend = "polars" THEN utils_merge_player_image(result, source)
                    ELSE executor_sql_merge_player_image(result, source)} :
             answer' = [op |-> "merge_player_image", result |-> result,
                        source |-> source,
                        outcome |-> IF m.raised = NoExc THEN "success" ELSE "error",
                        rows |-> m.rows]
    /\ UNCHANGED <<factVars, backend, history, paramVars, dispatchVars>>

ImagesNext == MergePlayerImage

SpecImages == ImagesInit /\ [][ImagesNext]_vars

\* a row without its image column
WithoutImage(r) == [c \in (DOMAIN r) \ {"player_image"} |-> r[c]]

\* C30: the enriched result has the rows of the catalogue result, as many, in
\* the same order and with the same values, only an image column being added,
\* and an image lookup that cannot be obtained does not make the outcome a
\* failure
C30_EnrichmentKeepsRanking ==
    answer.op = "merge_player_image" =>
        /\ answer.outcome = "success"
        /\ Len(answer.rows) = Len(answer.result)
        /\ \A i \in DOMAIN answer.rows :
              WithoutImage(answer.rows[i]) = answer.result[i]

============================================================================
